---- MODULE Spec2Model ----
(***************************************************************************)
(* Edit-war detection engine of Wikipedia_Stats.                           *)
(*                                                                         *)
(* The engine is EditWarAnalyzer (src/edit_war_analyzer.py): revert        *)
(* classification (detect_reverts), time-windowed grouping                 *)
(* (_group_reverts_by_time), episode statistics (_analyze_edit_war_group), *)
(* editor participation (_analyze_editor_participation) and the            *)
(* three-revert scan (_detect_three_revert_violations).  The comment-only  *)
(* classifiers of edit_war_summary.py and quick_edit_war_stats.py are      *)
(* modelled next to it.                                                    *)
(*                                                                         *)
(* Conventions.                                                            *)
(*  - A revision dict with optional keys is a record with a field has     *)
(*    telling for each key whether it is present; 'k' in rev is            *)
(*    Has(rev, k).  The value of an absent key is never read.              *)
(*  - A timestamp string "....-..-DDTHH:MM:00Z" is the record [d, h, m];   *)
(*    datetime.fromisoformat is ParseTimestamp, which turns it into        *)
(*    minutes.  Timestamps are on whole minutes, so that                   *)
(*    total_seconds() / 3600 <= W  is  minutes <= 60 * W  and              *)
(*    total_seconds() / 60  is the difference in minutes.                  *)
(*  - A comment is a sequence of one-character strings.                    *)
(*  - A raised exception is a result record whose status names it.         *)
(*  - Python indexes from 0, the sequences here from 1.                    *)
(*  - history is the caller's record of the results it has received.       *)
(*  - workers holds the runs of detect_edit_wars that go on side by side:   *)
(*    run[w] is the run of worker w, frame[f] the local variables of a     *)
(*    call of _group_reverts_by_time.                                      *)
(***************************************************************************)
EXTENDS Integers, Sequences, FiniteSets, TLC

VARIABLES cfg, revisions, reverts, pc, i, current_group, groups, result,
          user_index, revert_count, violations, history, workers

vars == <<cfg, revisions, reverts, pc, i, current_group, groups, result,
          user_index, revert_count, violations, history, workers>>

(***************************************************************************)
(* Bounds of the model.                                                    *)
(***************************************************************************)
MaxReverts == 5

MaxClassified == 3

MaxRevisions == 4

MaxScanned == 5

MaxEdits == 100

MaxDocument == 4

(***************************************************************************)
(* Values.                                                                 *)
(***************************************************************************)
Anonymous == "Anonymous"

Users == {"A", "B"}

\* __init__: the detection parameters of a freshly constructed analyzer.
DefaultConfig == [revert_threshold |-> 3, time_window_hours |-> 24, min_editors |-> 2]

\* The parameters are plain instance attributes; callers may assign them.
Configs == {[revert_threshold |-> t, time_window_hours |-> w, min_editors |-> 2] : t \in {2, 3}, w \in {1, 24}}

(***************************************************************************)
(* Timestamps.                                                             *)
(***************************************************************************)
\* datetime.fromisoformat(ts.replace('Z', '+00:00')), in minutes.
ParseTimestamp(ts) == (ts.d * 24 + ts.h) * 60 + ts.m

\* The timestamp string of a minute count (used to enumerate inputs).
FormatTimestamp(t) == [d |-> t \div 1440, h |-> (t % 1440) \div 60, m |-> t % 60]

\* (current_time - prev_time) in minutes.
MinutesBetween(prev, cur) == ParseTimestamp(cur.timestamp) - ParseTimestamp(prev.timestamp)

(***************************************************************************)
(* EpisodeGrouper: EditWarAnalyzer._group_reverts_by_time.                 *)
(***************************************************************************)
\* time_diff <= self.time_window_hours, time_diff in hours.
WithinWindowAbsolute(minutes, c) == minutes <= 60 * c.time_window_hours /\ 0 - minutes <= 60 * c.time_window_hours

WithinWindowStrict(minutes, c) == minutes < 60 * c.time_window_hours

WithinWindowLoose(minutes, c) == minutes <= 60 * (c.time_window_hours + 1)

WithinWindow(minutes, c) == minutes <= 60 * c.time_window_hours

\* len(current_group) >= self.revert_threshold
MeetsThresholdOff(group, c) == Len(group) >= c.revert_threshold - 1

MeetsThreshold(group, c) == Len(group) >= c.revert_threshold

\* if len(current_group) >= self.revert_threshold: groups.append(current_group)
CloseGroup(gs, group, c) == IF MeetsThreshold(group, c) THEN Append(gs, group) ELSE gs

\* An iteration that goes on with the open group after closing it.
GroupIterationKeep(rs, k, gs, cur, c) ==
    IF WithinWindow(MinutesBetween(rs[k-1], rs[k]), c)
    THEN [groups |-> gs, current_group |-> Append(cur, rs[k])]
    ELSE [groups |-> CloseGroup(gs, cur, c), current_group |-> Append(cur, rs[k])]

\* One iteration of the loop body, on the pair (groups, current_group).
GroupIteration(rs, k, gs, cur, c) ==
    IF WithinWindow(MinutesBetween(rs[k-1], rs[k]), c)
    THEN [groups |-> gs, current_group |-> Append(cur, rs[k])]
    ELSE [groups |-> CloseGroup(gs, cur, c), current_group |-> <<rs[k]>>]

RECURSIVE GroupLoop(_, _, _, _, _)
GroupLoop(rs, k, gs, cur, c) ==
    IF k > Len(rs)
    THEN CloseGroup(gs, cur, c)
    ELSE LET it == GroupIteration(rs, k, gs, cur, c)
         IN  GroupLoop(rs, k + 1, it.groups, it.current_group, c)

\* The whole call.
GroupRevertsByTime(rs, c) ==
    IF rs = <<>> THEN <<>> ELSE GroupLoop(rs, 2, <<>>, <<rs[1]>>, c)

(***************************************************************************)
(* EpisodeStatistics: EditWarAnalyzer._analyze_edit_war_group.             *)
(***************************************************************************)
\* Intervals measured from the first member.
IntervalsFromStart(group) == [k \in 1..(Len(group) - 1) |-> MinutesBetween(group[1], group[k+1])]

\* intervals: the gaps between consecutive members, in minutes.
Intervals(group) == [k \in 1..(Len(group) - 1) |-> MinutesBetween(group[k], group[k+1])]

SeqMin(s) == CHOOSE x \in {s[k] : k \in DOMAIN s} : \A y \in {s[k] : k \in DOMAIN s} : x <= y

SeqMax(s) == CHOOSE x \in {s[k] : k \in DOMAIN s} : \A y \in {s[k] : k \in DOMAIN s} : x >= y

RECURSIVE SeqSum(_, _)
SeqSum(s, k) == IF k > Len(s) THEN 0 ELSE s[k] + SeqSum(s, k + 1)

SeqMeanOverCount(s) == <<SeqSum(s, 1), Len(s) + 1>>

\* np.mean(intervals), as the fraction <<numerator, denominator>>.
SeqMean(s) == <<SeqSum(s, 1), Len(s)>>

\* The k-th smallest element of s.
Ranked(s, k) ==
    CHOOSE x \in {s[j] : j \in DOMAIN s} :
        /\ Cardinality({j \in DOMAIN s : s[j] < x}) < k
        /\ Cardinality({j \in DOMAIN s : s[j] <= x}) >= k

\* np.median(intervals): the mean of the two middle elements, which are the
\* same one for an odd length.
SeqMedian(s) == <<Ranked(s, (Len(s) + 1) \div 2) + Ranked(s, (Len(s) + 2) \div 2), 2>>

\* unique_editors = list(set(editors))
UniqueEditors(group) == {group[k].user : k \in DOMAIN group}

\* duration_hours is duration_minutes / 60; the mean and the median of the
\* intervals are fractions.
AnalyzeEditWarGroup(group) ==
    LET intervals == Intervals(group)
    IN  [start_time |-> group[1].timestamp,
         end_time |-> group[Len(group)].timestamp,
         duration_minutes |-> MinutesBetween(group[1], group[Len(group)]),
         revert_count |-> Len(group),
         unique_editors |-> Cardinality(UniqueEditors(group)),
         editors |-> UniqueEditors(group),
         avg_interval_minutes |-> IF intervals # <<>> THEN SeqMean(intervals) ELSE <<0, 1>>,
         median_interval_minutes |-> IF intervals # <<>> THEN SeqMedian(intervals) ELSE <<0, 1>>,
         min_interval_minutes |-> IF intervals # <<>> THEN SeqMin(intervals) ELSE 0,
         max_interval_minutes |-> IF intervals # <<>> THEN SeqMax(intervals) ELSE 0]

(***************************************************************************)
(* detect_edit_wars, from the revert list on: the 'edit_wars' entries.     *)
(***************************************************************************)
RECURSIVE WarsOfGroups(_, _, _)
WarsOfGroups(gs, k, c) ==
    IF k > Len(gs) THEN <<>>
    ELSE IF MeetsThreshold(gs[k], c)
         THEN <<AnalyzeEditWarGroup(gs[k])>> \o WarsOfGroups(gs, k + 1, c)
         ELSE WarsOfGroups(gs, k + 1, c)

EditWarsOf(rs, c) ==
    IF Len(rs) >= c.revert_threshold
    THEN WarsOfGroups(GroupRevertsByTime(rs, c), 1, c)
    ELSE <<>>

(***************************************************************************)
(* Results of calls.                                                       *)
(***************************************************************************)
NoResult == [status |-> "none"]

Returned(v) == [status |-> "ok", value |-> v]

Raised(e) == [status |-> e]

(***************************************************************************)
(* Inputs of the grouping specification: revert lists as detect_reverts    *)
(* builds them, first timestamp 0, the following ones by gaps of 0         *)
(* minutes, exactly the window, and the window plus one minute.            *)
(***************************************************************************)
GapChoices(c) == {0, 60 * c.time_window_hours, 60 * c.time_window_hours + 1}

RECURSIVE TimeAt(_, _)
TimeAt(gaps, k) == IF k <= 1 THEN 0 ELSE TimeAt(gaps, k - 1) + gaps[k]

MkRevert(t, u, id) ==
    [timestamp |-> FormatTimestamp(t), user |-> u, comment |-> <<"r", "v">>,
     size |-> 100, revid |-> id, reverted_to_size |-> 100]

(***************************************************************************)
(* Grouping specification: _group_reverts_by_time step by step, and the    *)
(* edit-war collection of detect_edit_wars, on a revert list.              *)
(***************************************************************************)
\* Reverts by A, B and A, an hour apart.
HourlyReverts == <<MkRevert(0, "A", 2), MkRevert(60, "B", 3), MkRevert(120, "A", 4)>>

InitGroup ==
    /\ \/ /\ cfg \in Configs
          /\ \E n \in 0..MaxReverts : \E gaps \in [2..n -> GapChoices(cfg)], us \in [1..n -> Users] :
                reverts = [k \in 1..n |-> MkRevert(TimeAt(gaps, k), us[k], k + 1)]
       \/ /\ cfg = DefaultConfig
          /\ reverts = HourlyReverts
    /\ revisions = <<>>
    /\ pc = "ready"
    /\ i = 0
    /\ current_group = <<>>
    /\ groups = <<>>
    /\ result = NoResult
    /\ user_index = 0
    /\ revert_count = 0
    /\ violations = <<>>
    /\ history = <<>>
    /\ workers = <<>>

\* A list that still holds what an earlier call left in it.
LeftoverGroups == groups

\* groups = []
NewGroups == <<>>

\* if not reverts: return [] ... groups = []; current_group = [reverts[0]]
GroupEnter ==
    /\ pc = "ready"
    /\ IF reverts = <<>>
       THEN /\ pc' = "group_done"
            /\ result' = Returned(<<>>)
            /\ UNCHANGED <<i, current_group, groups>>
       ELSE /\ pc' = "group_loop"
            /\ i' = 2
            /\ current_group' = <<reverts[1]>>
            /\ groups' = NewGroups
            /\ UNCHANGED result
    /\ UNCHANGED <<cfg, revisions, reverts, user_index, revert_count, violations, history, workers>>

\* for i in range(1, len(reverts)): ...
GroupStep ==
    /\ pc = "group_loop"
    /\ i <= Len(reverts)
    /\ LET it == GroupIteration(reverts, i, groups, current_group, cfg)
       IN  /\ groups' = it.groups
           /\ current_group' = it.current_group
    /\ i' = i + 1
    /\ UNCHANGED <<cfg, revisions, reverts, pc, result, user_index, revert_count, violations, history, workers>>

\* if len(current_group) >= self.revert_threshold: ...; return groups
GroupExit ==
    /\ pc = "group_loop"
    /\ i > Len(reverts)
    /\ groups' = CloseGroup(groups, current_group, cfg)
    /\ result' = Returned(groups')
    /\ pc' = "group_done"
    /\ UNCHANGED <<cfg, revisions, reverts, i, current_group, user_index, revert_count, violations, history, workers>>

\* detect_edit_wars, lines 139-147.
CollectEditWars ==
    /\ pc = "ready"
    /\ result' = Returned(EditWarsOf(reverts, cfg))
    /\ pc' = "wars_done"
    /\ UNCHANGED <<cfg, revisions, reverts, i, current_group, groups, user_index, revert_count, violations, history, workers>>

NextGroup == GroupEnter \/ GroupStep \/ GroupExit \/ CollectEditWars

SpecGroup == InitGroup /\ [][NextGroup]_vars

(***************************************************************************)
(* Unordered grouping specification: the same calls on a revert list whose *)
(* timestamps are in any order: each revert is at 0, at window_hours or at *)
(* twice window_hours and a minute.                                        *)
(***************************************************************************)
UnorderedTimes(c) == {0, 60 * c.time_window_hours, 120 * c.time_window_hours + 1}

InitUnordered ==
    /\ cfg \in Configs
    /\ \E n \in 0..MaxReverts : \E ts \in [1..n -> UnorderedTimes(cfg)] :
          reverts = [k \in 1..n |-> MkRevert(ts[k], "A", k + 1)]
    /\ revisions = <<>>
    /\ pc = "ready"
    /\ i = 0
    /\ current_group = <<>>
    /\ groups = <<>>
    /\ result = NoResult
    /\ user_index = 0
    /\ revert_count = 0
    /\ violations = <<>>
    /\ history = <<>>
    /\ workers = <<>>

SpecUnordered == InitUnordered /\ [][NextGroup]_vars

\* The step-by-step call returns what the whole-call operator computes.
GroupStepsAgree == pc = "group_done" => result = Returned(GroupRevertsByTime(reverts, cfg))


(***************************************************************************)
(* RevertClassifier: EditWarAnalyzer.detect_reverts and the comment-only   *)
(* detect_reverts of EditWarSummary / detect_reverts_quick.                *)
(***************************************************************************)
\* str.lower() on the letters that occur in the modelled comments.
Lower(ch) ==
    CASE ch = "R" -> "r"
      [] ch = "V" -> "v"
      [] ch = "U" -> "u"
      [] OTHER -> ch

LowerSeqIdentity(text) == text

LowerSeq(text) == [k \in DOMAIN text |-> Lower(text[k])]

\* indicator in comment
Contains(text, piece) ==
    \E k \in 1..(Len(text) - Len(piece) + 1) : SubSeq(text, k, k + Len(piece) - 1) = piece

\* revert_indicators of EditWarAnalyzer.detect_reverts
RevertIndicators ==
    {<<"r", "e", "v", "e", "r", "t">>, <<"u", "n", "d", "o">>, <<"r", "v">>,
     <<"r", "o", "l", "l", "b", "a", "c", "k">>, <<"r", "e", "s", "t", "o", "r", "e">>}

RevertIndicatorsWithoutRv == (RevertIndicators \ {<<"r", "v">>}) \cup {<<"r", "e", "v", "e", "r", "t", "e", "d">>}

\* revert_indicators of the comment-only classifiers
RevertIndicatorsQuick == RevertIndicators \cup {<<"r", "e", "v", "e", "r", "t", "e", "d">>}

\* key in rev
Has(rev, key) == rev.has[key]

\* dict.get with a default
GetOr(rev, key, value, default) == IF Has(rev, key) THEN value ELSE default

\* current_rev.get('comment', '').lower()
CommentOf(rev) == LowerSeq(GetOr(rev, "comment", rev.comment, <<>>))

\* any(indicator in comment for indicator in revert_indicators)
IsRevertComment(rev, indicators) == \E ind \in indicators : Contains(CommentOf(rev), ind)

\* A loop over range(0, len(revisions)), in indexes from 1.
FirstCandidateZero == 0 + 1

\* range(1, len(revisions)): the first index examined, in indexes from 1.
FirstCandidate == 2

\* revisions[i-1]; Python wraps index -1 to the last element.
PreviousRev(revs, k) == IF k = 1 THEN revs[Len(revs)] ELSE revs[k - 1]

Abs(x) == IF x < 0 THEN -x ELSE x

Max(x, y) == IF x >= y THEN x ELSE y

\* size_diff / max(current_rev['size'], 1) < 0.1
SizeSimilar(cur, prev) == 10 * Abs(cur.size - prev.size) < Max(cur.size, 1)

\* The nested conditions of lines 90-102, with the size test skipped when a
\* size is absent.
IsRevertLenient(revs, k) ==
    /\ (Has(revs[k], "size") /\ Has(PreviousRev(revs, k), "size")) => SizeSimilar(revs[k], PreviousRev(revs, k))
    /\ IsRevertComment(revs[k], RevertIndicators)

\* The nested conditions of lines 90-102.
IsRevert(revs, k) ==
    /\ Has(revs[k], "size")
    /\ Has(PreviousRev(revs, k), "size")
    /\ SizeSimilar(revs[k], PreviousRev(revs, k))
    /\ IsRevertComment(revs[k], RevertIndicators)

\* The dict appended at lines 103-111 (parentid is copied and never read).
RevertOf(cur, prev) ==
    [timestamp |-> cur.timestamp,
     user |-> GetOr(cur, "user", cur.user, Anonymous),
     comment |-> GetOr(cur, "comment", cur.comment, <<>>),
     size |-> cur.size,
     revid |-> cur.revid,
     reverted_to_size |-> prev.size]

\* current_rev['timestamp'] and current_rev['revid'] raise KeyError when absent.
RECURSIVE DetectLoop(_, _, _)
DetectLoop(revs, k, acc) ==
    IF k > Len(revs) THEN Returned(acc)
    ELSE IF IsRevert(revs, k)
         THEN IF Has(revs[k], "timestamp") /\ Has(revs[k], "revid")
              THEN DetectLoop(revs, k + 1, Append(acc, RevertOf(revs[k], PreviousRev(revs, k))))
              ELSE Raised("KeyError")
         ELSE DetectLoop(revs, k + 1, acc)

DetectReverts(revs) == DetectLoop(revs, FirstCandidate, <<>>)

\* The dict appended by the comment-only classifiers.
QuickRevertOf(cur) ==
    [timestamp |-> cur.timestamp,
     user |-> GetOr(cur, "user", cur.user, Anonymous),
     comment |-> GetOr(cur, "comment", cur.comment, <<>>),
     size |-> GetOr(cur, "size", cur.size, 0)]

RECURSIVE QuickLoop(_, _, _)
QuickLoop(revs, k, acc) ==
    IF k > Len(revs) THEN Returned(acc)
    ELSE IF IsRevertComment(revs[k], RevertIndicatorsQuick)
         THEN IF Has(revs[k], "timestamp")
              THEN QuickLoop(revs, k + 1, Append(acc, QuickRevertOf(revs[k])))
              ELSE Raised("KeyError")
         ELSE QuickLoop(revs, k + 1, acc)

DetectRevertsQuick(revs) == QuickLoop(revs, FirstCandidate, <<>>)

(***************************************************************************)
(* Inputs of the classification specification: revisions one minute apart  *)
(* by one user, with every combination of comment and size.                *)
(***************************************************************************)
Comments == {<<>>, <<"R", "V">>, <<"U", "n", "d", "i", "d">>, <<"r", "e", "v", "e", "r", "t", "e", "d">>}

Sizes == {0, 100, 105}

\* A revision dict as the API returns it; absent keys get a fixed filler.
MkRevision(id, tsKey, t, userKey, u, commentKey, text, sizeKey, sz) ==
    [has |-> [revid |-> TRUE, timestamp |-> tsKey, user |-> userKey, comment |-> commentKey, size |-> sizeKey],
     revid |-> id,
     timestamp |-> IF tsKey THEN FormatTimestamp(t) ELSE FormatTimestamp(0),
     user |-> IF userKey THEN u ELSE "",
     comment |-> IF commentKey THEN text ELSE <<>>,
     size |-> IF sizeKey THEN sz ELSE 0]

CommentChoices == {[has |-> TRUE, text |-> t] : t \in Comments} \cup {[has |-> FALSE, text |-> <<>>]}

SizeChoices == {[has |-> TRUE, size |-> z] : z \in Sizes} \cup {[has |-> FALSE, size |-> 0]}

(***************************************************************************)
(* Classification specification: one call of a classifier on a revision    *)
(* list.                                                                   *)
(***************************************************************************)
InitClassify ==
    /\ cfg = DefaultConfig
    /\ \E n \in 0..MaxClassified : \E cs \in [1..n -> CommentChoices], zs \in [1..n -> SizeChoices] :
          revisions = [k \in 1..n |-> MkRevision(k, TRUE, k, TRUE, "A", cs[k].has, cs[k].text, zs[k].has, zs[k].size)]
    /\ reverts = <<>>
    /\ pc = "ready"
    /\ i = 0
    /\ current_group = <<>>
    /\ groups = <<>>
    /\ result = NoResult
    /\ user_index = 0
    /\ revert_count = 0
    /\ violations = <<>>
    /\ history = <<>>
    /\ workers = <<>>

\* reverts = analyzer.detect_reverts(revisions)
CallDetectReverts ==
    /\ pc = "ready"
    /\ result' = DetectReverts(revisions)
    /\ reverts' = IF result'.status = "ok" THEN result'.value ELSE reverts
    /\ pc' = "detect_done"
    /\ UNCHANGED <<cfg, revisions, i, current_group, groups, user_index, revert_count, violations, history, workers>>

\* reverts = detect_reverts_quick(revisions)
CallDetectRevertsQuick ==
    /\ pc = "ready"
    /\ result' = DetectRevertsQuick(revisions)
    /\ reverts' = IF result'.status = "ok" THEN result'.value ELSE reverts
    /\ pc' = "quick_done"
    /\ UNCHANGED <<cfg, revisions, i, current_group, groups, user_index, revert_count, violations, history, workers>>

NextClassify == CallDetectReverts \/ CallDetectRevertsQuick

SpecClassify == InitClassify /\ [][NextClassify]_vars


(***************************************************************************)
(* ParticipationAnalyzer: EditWarAnalyzer._analyze_editor_participation.   *)
(***************************************************************************)
\* rev.get('user', 'Anonymous')
EditorOf(rev) == GetOr(rev, "user", rev.user, Anonymous)

\* A count that skips the revisions without a 'user' key.
EditorEditsNamed(revs) ==
    [u \in {EditorOf(revs[k]) : k \in DOMAIN revs} |-> Cardinality({k \in DOMAIN revs : Has(revs[k], "user") /\ revs[k].user = u})]

\* editor_edits: Counter of the revisions' editors
EditorEdits(revs) ==
    [u \in {EditorOf(revs[k]) : k \in DOMAIN revs} |-> Cardinality({k \in DOMAIN revs : EditorOf(revs[k]) = u})]

\* A count of all the reverts, whoever made them.
EditorRevertsTotal(rs, u) == Len(rs)

\* editor_reverts.get(editor, 0); every revert dict carries 'user'.
EditorReverts(rs, u) == Cardinality({k \in DOMAIN rs : rs[k].user = u})

\* Tiers whose boundaries belong to the lower tier.
ExperienceLevelInclusive(edit_count) ==
    IF edit_count <= 10 THEN "new" ELSE IF edit_count <= 100 THEN "intermediate" ELSE "veteran"

\* 'new' if edit_count < 10 else 'intermediate' if edit_count < 100 else 'veteran'
ExperienceLevel(edit_count) ==
    IF edit_count < 10 THEN "new" ELSE IF edit_count < 100 THEN "intermediate" ELSE "veteran"

RECURSIVE SumOver(_, _)
SumOver(f, dom) ==
    IF dom = {} THEN 0 ELSE LET u == CHOOSE x \in dom : TRUE IN f[u] + SumOver(f, dom \ {u})

\* edit_percentage is the fraction <<numerator, denominator>>.
AnalyzeEditorParticipation(revs, rs) ==
    LET editor_edits == EditorEdits(revs)
        total_edits == SumOver(editor_edits, DOMAIN editor_edits)
        editor_experience ==
            [u \in DOMAIN editor_edits |->
                [total_edits |-> editor_edits[u],
                 reverts |-> EditorReverts(rs, u),
                 experience_level |-> ExperienceLevel(editor_edits[u]),
                 edit_percentage |-> IF total_edits > 0 THEN <<100 * editor_edits[u], total_edits>> ELSE <<0, 1>>]]
        tier(level) == Cardinality({u \in DOMAIN editor_experience : editor_experience[u].experience_level = level})
    IN  [total_editors |-> Cardinality(DOMAIN editor_edits),
         editor_breakdown |-> editor_experience,
         new_editors |-> tier("new"),
         intermediate_editors |-> tier("intermediate"),
         veteran_editors |-> tier("veteran")]

(***************************************************************************)
(* ThreeRevertRuleScanner: EditWarAnalyzer._detect_three_revert_violations.*)
(***************************************************************************)
\* len(user_revs) >= 4
ScanMinEdits == 4

ScanSizeDeltaInclusive == 100 + 1

\* size_diff < 100
ScanSizeDelta == 100

\* A window taken from the analyzer's configuration.
ScanWindowFromConfig == cfg.time_window_hours

\* time_diff <= 24 and revert_count >= 3
ScanWindowHours == 24

ScanRevertCountTwo == 3 - 1

ScanRevertCount == 3

\* The keys of user_revisions in insertion order: editors by first appearance.
RECURSIVE EditorsInOrder(_, _, _)
EditorsInOrder(revs, k, acc) ==
    IF k > Len(revs) THEN acc
    ELSE IF \E j \in DOMAIN acc : acc[j] = EditorOf(revs[k])
         THEN EditorsInOrder(revs, k + 1, acc)
         ELSE EditorsInOrder(revs, k + 1, Append(acc, EditorOf(revs[k])))

\* user_revisions[user]
RECURSIVE UserRevs(_, _, _)
UserRevs(revs, u, k) ==
    IF k > Len(revs) THEN <<>>
    ELSE IF EditorOf(revs[k]) = u
         THEN <<revs[k]>> \o UserRevs(revs, u, k + 1)
         ELSE UserRevs(revs, u, k + 1)

\* Order of two timestamp strings of the same layout.
TimestampLess(a, b) ==
    \/ a.d < b.d
    \/ a.d = b.d /\ a.h < b.h
    \/ a.d = b.d /\ a.h = b.h /\ a.m < b.m

\* list.sort(key=lambda x: x['timestamp']) is stable.
RECURSIVE InsertByTimestamp(_, _)
InsertByTimestamp(sorted, rev) ==
    IF sorted = <<>> THEN <<rev>>
    ELSE IF TimestampLess(rev.timestamp, sorted[Len(sorted)].timestamp)
         THEN Append(InsertByTimestamp(SubSeq(sorted, 1, Len(sorted) - 1), rev), sorted[Len(sorted)])
         ELSE Append(sorted, rev)

RECURSIVE SortByTimestamp(_, _, _)
SortByTimestamp(revs, k, acc) ==
    IF k > Len(revs) THEN acc ELSE SortByTimestamp(revs, k + 1, InsertByTimestamp(acc, revs[k]))

\* A counter that starts over after a gap above the window.
CountAfterWindowed(revs, k, count) ==
    LET like == Has(revs[k], "size") /\ Has(revs[k-1], "size") /\ Abs(revs[k].size - revs[k-1].size) < ScanSizeDelta
        base == IF MinutesBetween(revs[k-1], revs[k]) > 60 * ScanWindowHours THEN 0 ELSE count
    IN  IF like THEN base + 1 ELSE base

\* A counter that counts a pair only when the later revision's comment has a
\* revert indicator.
CountAfterClassified(revs, k, count) ==
    IF /\ Has(revs[k], "size") /\ Has(revs[k-1], "size") /\ Abs(revs[k].size - revs[k-1].size) < ScanSizeDelta
       /\ IsRevertComment(revs[k], RevertIndicators)
    THEN count + 1 ELSE count

\* if 'size' in both and size_diff < 100: revert_count += 1
CountAfter(revs, k, count) ==
    IF Has(revs[k], "size") /\ Has(revs[k-1], "size") /\ Abs(revs[k].size - revs[k-1].size) < ScanSizeDelta
    THEN count + 1
    ELSE count

\* A window that excludes a gap of exactly 24 hours.
EmitsStrictWindow(minutes, counted) == minutes < 60 * ScanWindowHours /\ counted >= ScanRevertCount

\* if time_diff <= 24 and revert_count >= 3
Emits(minutes, counted) == minutes <= 60 * ScanWindowHours /\ counted >= ScanRevertCount

\* The dict appended at lines 278-283; time_window_hours is
\* time_window_minutes / 60.
ViolationOf(u, revs, k, counted) ==
    [user |-> u, timestamp |-> revs[k].timestamp,
     revert_count |-> counted, time_window_minutes |-> MinutesBetween(revs[k-1], revs[k])]

\* A loop that goes on with the next pair after appending.
AfterEmissionContinue(revs, k) == k + 1

\* break: the index at which the loop over the pairs goes on after appending.
AfterEmission(revs, k) == Len(revs) + 1

\* The loop over one editor's sorted revisions; the violations found.
RECURSIVE ScanUser(_, _, _, _)
ScanUser(u, revs, k, count) ==
    IF k > Len(revs) THEN <<>>
    ELSE LET minutes == MinutesBetween(revs[k-1], revs[k])
             counted == CountAfter(revs, k, count)
         IN  IF Emits(minutes, counted)
             THEN <<ViolationOf(u, revs, k, counted)>> \o ScanUser(u, revs, AfterEmission(revs, k), counted)
             ELSE ScanUser(u, revs, k + 1, counted)

\* The loop over the editors; x['timestamp'] raises KeyError when absent.
RECURSIVE ScanEditors(_, _, _, _)
ScanEditors(revs, editors, k, found) ==
    IF k > Len(editors) THEN Returned(found)
    ELSE LET user_revs == UserRevs(revs, editors[k], 1)
         IN  IF Len(user_revs) >= ScanMinEdits
             THEN IF \E j \in DOMAIN user_revs : ~Has(user_revs[j], "timestamp")
                  THEN Raised("KeyError")
                  ELSE ScanEditors(revs, editors, k + 1,
                                   found \o ScanUser(editors[k], SortByTimestamp(user_revs, 1, <<>>), 2, 0))
             ELSE ScanEditors(revs, editors, k + 1, found)

DetectThreeRevertViolations(revs) == ScanEditors(revs, EditorsInOrder(revs, 1, <<>>), 1, <<>>)

(***************************************************************************)
(* Scanning specification: _detect_three_revert_violations step by step,   *)
(* by a freshly constructed analyzer.  The revisions are by two users, of  *)
(* size 100 or 200, each 24 hours or 24 hours and a minute after the one   *)
(* before.                                                                 *)
(***************************************************************************)
ScanGapChoices == {60 * 24, 60 * 24 + 1}

ScanSizes == {100, 200}

ScanInputs(n) ==
    {[k \in 1..n |-> MkRevision(k, TRUE, TimeAt(gaps, k), TRUE, us[k], TRUE, <<>>, TRUE, zs[k])] :
        gaps \in [2..n -> ScanGapChoices], us \in [1..n -> Users], zs \in [1..n -> ScanSizes]}

InitScan ==
    /\ cfg = DefaultConfig
    /\ \E n \in 0..MaxScanned : revisions \in ScanInputs(n)
    /\ reverts = <<>>
    /\ pc = "ready"
    /\ i = 0
    /\ current_group = <<>>
    /\ groups = <<>>
    /\ result = NoResult
    /\ user_index = 0
    /\ revert_count = 0
    /\ violations = <<>>
    /\ history = <<>>
    /\ workers = <<>>

\* A sort applied to the list the caller passed in.
CallerListSorted(revs) == SortByTimestamp(revs, 1, <<>>)

\* user_revisions[user].append(rev) fills lists of the scanner's own, so
\* user_revs.sort(...) leaves the list the caller passed in as it is.
CallerListAfterSort(revs) == revs

\* list(user_revisions.keys())
ScanOrder == EditorsInOrder(revisions, 1, <<>>)

\* user_revs of the editor at hand, before and after user_revs.sort(...)
CurrentUserRevs == UserRevs(revisions, ScanOrder[user_index], 1)

SortedUserRevs == SortByTimestamp(CurrentUserRevs, 1, <<>>)

\* violations = []; user_revisions = defaultdict(list); ...
ScanEnter ==
    /\ pc = "ready"
    /\ pc' = "scan_users"
    /\ user_index' = 1
    /\ violations' = <<>>
    /\ UNCHANGED <<cfg, revisions, reverts, i, current_group, groups, result, revert_count, history, workers>>

\* for user, user_revs in user_revisions.items(): if len(user_revs) >= 4: sort; revert_count = 0
ScanPick ==
    /\ pc = "scan_users"
    /\ user_index <= Len(ScanOrder)
    /\ IF Len(CurrentUserRevs) >= ScanMinEdits
       THEN IF \E j \in DOMAIN CurrentUserRevs : ~Has(CurrentUserRevs[j], "timestamp")
            THEN /\ pc' = "scan_done"
                 /\ result' = Raised("KeyError")
                 /\ UNCHANGED <<i, revert_count, user_index>>
            ELSE /\ pc' = "scan_pairs"
                 /\ i' = 2
                 /\ revert_count' = 0
                 /\ UNCHANGED <<result, user_index>>
       ELSE /\ user_index' = user_index + 1
            /\ UNCHANGED <<pc, i, revert_count, result>>
    /\ revisions' = IF Len(CurrentUserRevs) >= ScanMinEdits /\ pc' = "scan_pairs"
                    THEN CallerListAfterSort(revisions)
                    ELSE revisions
    /\ UNCHANGED <<cfg, reverts, current_group, groups, violations, history, workers>>

\* for i in range(1, len(user_revs)): ...
ScanStep ==
    /\ pc = "scan_pairs"
    /\ i <= Len(SortedUserRevs)
    /\ LET counted == CountAfter(SortedUserRevs, i, revert_count)
           minutes == MinutesBetween(SortedUserRevs[i-1], SortedUserRevs[i])
       IN  /\ revert_count' = counted
           /\ IF Emits(minutes, counted)
              THEN /\ violations' = Append(violations, ViolationOf(ScanOrder[user_index], SortedUserRevs, i, counted))
                   /\ i' = AfterEmission(SortedUserRevs, i)
              ELSE /\ i' = i + 1
                   /\ UNCHANGED violations
    /\ UNCHANGED <<cfg, revisions, reverts, pc, current_group, groups, result, user_index, history, workers>>

\* The loop over the pairs is over: on to the next editor.
ScanNextUser ==
    /\ pc = "scan_pairs"
    /\ i > Len(SortedUserRevs)
    /\ pc' = "scan_users"
    /\ user_index' = user_index + 1
    /\ UNCHANGED <<cfg, revisions, reverts, i, current_group, groups, result, revert_count, violations, history, workers>>

\* return violations
ScanExit ==
    /\ pc = "scan_users"
    /\ user_index > Len(ScanOrder)
    /\ pc' = "scan_done"
    /\ result' = Returned(violations)
    /\ UNCHANGED <<cfg, revisions, reverts, i, current_group, groups, user_index, revert_count, violations, history, workers>>

NextScan == ScanEnter \/ ScanPick \/ ScanStep \/ ScanNextUser \/ ScanExit

SpecScan == InitScan /\ [][NextScan]_vars

(***************************************************************************)
(* Configured scanning specification: the same scan by an analyzer whose   *)
(* revert_threshold and time_window_hours were set after construction, on  *)
(* one editor's revisions an hour, 24 hours or 24 hours and a minute       *)
(* apart.                                                                  *)
(***************************************************************************)
ConfiguredGapChoices == {60, 60 * 24, 60 * 24 + 1}

ConfiguredInputs(n) ==
    {[k \in 1..n |-> MkRevision(k, TRUE, TimeAt(gaps, k), TRUE, "A", TRUE, <<>>, TRUE, zs[k])] :
        gaps \in [2..n -> ConfiguredGapChoices], zs \in [1..n -> ScanSizes]}

InitScanConfigured ==
    /\ cfg \in Configs
    /\ \E n \in 0..MaxScanned : revisions \in ConfiguredInputs(n)
    /\ reverts = <<>>
    /\ pc = "ready"
    /\ i = 0
    /\ current_group = <<>>
    /\ groups = <<>>
    /\ result = NoResult
    /\ user_index = 0
    /\ revert_count = 0
    /\ violations = <<>>
    /\ history = <<>>
    /\ workers = <<>>

SpecScanConfigured == InitScanConfigured /\ [][NextScan]_vars

(***************************************************************************)
(* Size specification: the same scan on one editor's revisions of size     *)
(* 100 or 200 or without size, 24 hours or 24 hours and a minute apart.    *)
(***************************************************************************)
ScanSizeChoices == {[has |-> TRUE, size |-> z] : z \in ScanSizes} \cup {[has |-> FALSE, size |-> 0]}

InitScanSizes ==
    /\ cfg = DefaultConfig
    /\ \E n \in 0..MaxScanned : \E gaps \in [2..n -> ScanGapChoices], zs \in [1..n -> ScanSizeChoices] :
          revisions = [k \in 1..n |-> MkRevision(k, TRUE, TimeAt(gaps, k), TRUE, "A", TRUE, <<>>, zs[k].has, zs[k].size)]
    /\ reverts = <<>>
    /\ pc = "ready"
    /\ i = 0
    /\ current_group = <<>>
    /\ groups = <<>>
    /\ result = NoResult
    /\ user_index = 0
    /\ revert_count = 0
    /\ violations = <<>>
    /\ history = <<>>
    /\ workers = <<>>

SpecScanSizes == InitScanSizes /\ [][NextScan]_vars

\* The step-by-step call returns what the whole-call operator computes.
ScanStepsAgree == pc = "scan_done" => result = DetectThreeRevertViolations(revisions)

(***************************************************************************)
(* EditWarAnalyzer.detect_edit_wars on the revisions get_page_revisions    *)
(* returned.  The empty dict is the empty function; page_title is passed   *)
(* through and left out; revert_rate is the fraction <<reverts, total>>.   *)
(***************************************************************************)
EmptyDict == <<>>

EditWarData(revs, rs, c, found) ==
    [total_revisions |-> Len(revs),
     total_reverts |-> Len(rs),
     revert_rate |-> IF revs # <<>> THEN <<Len(rs), Len(revs)>> ELSE <<0, 1>>,
     edit_wars |-> EditWarsOf(rs, c),
     revert_intervals |-> <<>>,
     editor_participation |-> AnalyzeEditorParticipation(revs, rs),
     three_revert_violations |-> found]

\* detect_edit_wars from line 124 on, for a non-empty revision list.
AnalyzeRevisions(revs, c) ==
    LET detected == DetectReverts(revs)
    IN  IF detected.status # "ok" THEN detected
        ELSE LET scanned == DetectThreeRevertViolations(revs)
             IN  IF scanned.status # "ok" THEN scanned
                 ELSE Returned(EditWarData(revs, detected.value, c, scanned.value))

DetectEditWarsUnguarded(revs, c) == AnalyzeRevisions(revs, c)

DetectEditWars(revs, c) ==
    IF revs = <<>> THEN Returned(EmptyDict) ELSE AnalyzeRevisions(revs, c)

(***************************************************************************)
(* Engine specification: one call of an engine method on a fetched         *)
(* revision list, by a freshly constructed analyzer.  The revisions are    *)
(* an hour apart; each has or lacks its timestamp, is by one of two users, *)
(* and is either a revert (comment "rv") or a plain edit, all of size 100. *)
(***************************************************************************)
KindChoices == {<<"r", "v">>, <<>>}

UserChoices == {[has |-> TRUE, user |-> u] : u \in Users} \cup {[has |-> FALSE, user |-> ""]}

Init ==
    /\ cfg = DefaultConfig
    /\ \E n \in 0..MaxRevisions : \E ts \in [1..n -> BOOLEAN], us \in [1..n -> Users], cs \in [1..n -> KindChoices] :
          revisions = [k \in 1..n |-> MkRevision(k, ts[k], 60 * k, TRUE, us[k], TRUE, cs[k], TRUE, 100)]
    /\ reverts = <<>>
    /\ pc = "ready"
    /\ i = 0
    /\ current_group = <<>>
    /\ groups = <<>>
    /\ result = NoResult
    /\ user_index = 0
    /\ revert_count = 0
    /\ violations = <<>>
    /\ history = <<>>
    /\ workers = <<>>

(***************************************************************************)
(* Participation specification: one call of _analyze_editor_participation  *)
(* on a revision list and its reverts.  The lists are short ones of any    *)
(* mix of editors, and long ones of a run by A, a run by B and at most one *)
(* revision without editor, long enough to reach every tier.               *)
(***************************************************************************)
SecondRuns == {0, 9, 10}

\* The editor of the revision at position k of the runs na by A, nb by B.
RunUser(na, nb, k) ==
    IF k <= na THEN [has |-> TRUE, user |-> "A"]
    ELSE IF k <= na + nb THEN [has |-> TRUE, user |-> "B"]
    ELSE [has |-> FALSE, user |-> ""]

InitParticipation ==
    /\ cfg = DefaultConfig
    /\ \/ \E n \in 0..MaxRevisions : \E us \in [1..n -> UserChoices], cs \in [1..n -> KindChoices] :
             revisions = [k \in 1..n |-> MkRevision(k, TRUE, 60 * k, us[k].has, us[k].user, TRUE, cs[k], TRUE, 100)]
       \/ \E na \in 0..MaxEdits, nb \in SecondRuns, nc \in {0, 1}, kind \in KindChoices :
             revisions = [k \in 1..(na + nb + nc) |->
                             MkRevision(k, TRUE, 60 * k, RunUser(na, nb, k).has, RunUser(na, nb, k).user, TRUE, kind, TRUE, 100)]
    /\ reverts = <<>>
    /\ pc = "ready"
    /\ i = 0
    /\ current_group = <<>>
    /\ groups = <<>>
    /\ result = NoResult
    /\ user_index = 0
    /\ revert_count = 0
    /\ violations = <<>>
    /\ history = <<>>
    /\ workers = <<>>

\* groups = analyzer._group_reverts_by_time(analyzer.detect_reverts(revisions))
CallGroupReverts ==
    /\ pc = "ready"
    /\ DetectReverts(revisions).status = "ok"
    /\ reverts' = DetectReverts(revisions).value
    /\ result' = Returned(GroupRevertsByTime(reverts', cfg))
    /\ pc' = "group_done"
    /\ UNCHANGED <<cfg, revisions, i, current_group, groups, user_index, revert_count, violations, history, workers>>

\* analyzer._analyze_editor_participation(revisions, analyzer.detect_reverts(revisions))
CallParticipation ==
    /\ pc = "ready"
    /\ DetectReverts(revisions).status = "ok"
    /\ reverts' = DetectReverts(revisions).value
    /\ result' = Returned(AnalyzeEditorParticipation(revisions, reverts'))
    /\ pc' = "participation_done"
    /\ UNCHANGED <<cfg, revisions, i, current_group, groups, user_index, revert_count, violations, history, workers>>

\* analyzer._detect_three_revert_violations(revisions)
CallViolations ==
    /\ pc = "ready"
    /\ result' = DetectThreeRevertViolations(revisions)
    /\ pc' = "violations_done"
    /\ UNCHANGED <<cfg, revisions, reverts, i, current_group, groups, user_index, revert_count, violations, history, workers>>

\* analyzer.detect_edit_wars(page_title)
CallDetectEditWars ==
    /\ pc = "ready"
    /\ result' = DetectEditWars(revisions, cfg)
    /\ pc' = "edit_wars_done"
    /\ UNCHANGED <<cfg, revisions, reverts, i, current_group, groups, user_index, revert_count, violations, history, workers>>

NextParticipation == CallParticipation

SpecParticipation == InitParticipation /\ [][NextParticipation]_vars

Next == CallDetectReverts \/ CallGroupReverts \/ CallParticipation \/ CallViolations \/ CallDetectEditWars

Spec == Init /\ [][Next]_vars

(***************************************************************************)
(* Session specification: a caller keeps one analyzer of the default       *)
(* configuration and calls it again and again on the same revision list,   *)
(* in any order; it records the first result of detect_reverts,            *)
(* _group_reverts_by_time and _analyze_editor_participation in history.    *)
(***************************************************************************)
NoHistory == [detect_done |-> NoResult, group_done |-> NoResult, participation_done |-> NoResult]

InitSession ==
    /\ cfg = DefaultConfig
    /\ \E n \in 0..MaxRevisions : \E us \in [1..n -> Users], cs \in [1..n -> KindChoices] :
          revisions = [k \in 1..n |-> MkRevision(k, TRUE, 60 * k, TRUE, us[k], TRUE, cs[k], TRUE, 100)]
    /\ reverts = DetectReverts(revisions).value
    /\ pc = "ready"
    /\ i = 0
    /\ current_group = <<>>
    /\ groups = <<>>
    /\ result = NoResult
    /\ user_index = 0
    /\ revert_count = 0
    /\ violations = <<>>
    /\ history = NoHistory
    /\ workers = <<>>

\* The call is over: the caller records its result if it is the first of
\* its operation, and is ready for the next call.
SessionReturn ==
    /\ pc \in {"detect_done", "group_done", "participation_done", "violations_done", "edit_wars_done"}
    /\ history' = IF pc \in DOMAIN history /\ history[pc] = NoResult
                  THEN [history EXCEPT ![pc] = result]
                  ELSE history
    /\ pc' = "ready"
    /\ result' = NoResult
    /\ UNCHANGED <<cfg, revisions, reverts, i, current_group, groups, user_index, revert_count, violations, workers>>

NextSession ==
    \/ CallDetectReverts
    \/ GroupEnter
    \/ GroupStep
    \/ GroupExit
    \/ CallParticipation
    \/ CallViolations
    \/ CallDetectEditWars
    \/ SessionReturn

SpecSession == InitSession /\ [][NextSession]_vars

(***************************************************************************)
(* Frame specification: one call of an engine component on a revision list *)
(* whose timestamps need not ascend, and on its reverts.                   *)
(***************************************************************************)
FrameTimes == {0, 60}

InitFrame ==
    /\ cfg = DefaultConfig
    /\ \E n \in 0..MaxRevisions : \E ts \in [1..n -> FrameTimes], us \in [1..n -> Users], cs \in [1..n -> KindChoices] :
          revisions = [k \in 1..n |-> MkRevision(k, TRUE, ts[k], TRUE, us[k], TRUE, cs[k], TRUE, 100)]
    /\ reverts = DetectReverts(revisions).value
    /\ pc = "ready"
    /\ i = 0
    /\ current_group = <<>>
    /\ groups = <<>>
    /\ result = NoResult
    /\ user_index = 0
    /\ revert_count = 0
    /\ violations = <<>>
    /\ history = <<>>
    /\ workers = <<>>

NextFrame ==
    \/ CallDetectReverts
    \/ GroupEnter
    \/ GroupStep
    \/ GroupExit
    \/ CollectEditWars
    \/ CallParticipation
    \/ ScanEnter
    \/ ScanPick
    \/ ScanStep
    \/ ScanNextUser
    \/ ScanExit

SpecFrame == InitFrame /\ [][NextFrame]_vars

(***************************************************************************)
(* Comment specification: the scan of two revision lists that agree on     *)
(* every editor, timestamp and size, and whose comments are chosen freely. *)
(* history holds the second list and the result of its scan.               *)
(***************************************************************************)
InitComments ==
    /\ cfg = DefaultConfig
    /\ \E n \in 0..MaxScanned : \E zs \in [1..n -> ScanSizes], cs \in [1..n -> KindChoices], ds \in [1..n -> KindChoices] :
          /\ revisions = [k \in 1..n |-> MkRevision(k, TRUE, 60 * 24 * k, TRUE, "A", TRUE, cs[k], TRUE, zs[k])]
          /\ history = [other |-> [k \in 1..n |-> MkRevision(k, TRUE, 60 * 24 * k, TRUE, "A", TRUE, ds[k], TRUE, zs[k])],
                        result |-> NoResult]
    /\ reverts = <<>>
    /\ pc = "ready"
    /\ i = 0
    /\ current_group = <<>>
    /\ groups = <<>>
    /\ result = NoResult
    /\ user_index = 0
    /\ revert_count = 0
    /\ violations = <<>>
    /\ workers = <<>>

\* violations = analyzer._detect_three_revert_violations(revisions)
ScanFirst ==
    /\ pc = "ready"
    /\ result' = DetectThreeRevertViolations(revisions)
    /\ pc' = "first_done"
    /\ UNCHANGED <<cfg, revisions, reverts, i, current_group, groups, user_index, revert_count, violations, history, workers>>

\* The same call on the second list.
ScanSecond ==
    /\ pc = "first_done"
    /\ history' = [history EXCEPT !.result = DetectThreeRevertViolations(history.other)]
    /\ pc' = "both_done"
    /\ UNCHANGED <<cfg, revisions, reverts, i, current_group, groups, result, user_index, revert_count, violations, workers>>

NextComments == ScanFirst \/ ScanSecond

SpecComments == InitComments /\ [][NextComments]_vars

(***************************************************************************)
(* The scripts' copies of the pipeline: analyze_edit_war_patterns_quick    *)
(* and detect_three_revert_violations_quick (quick_edit_war_stats.py),     *)
(* EditWarSummary.analyze_edit_war_patterns and the violation block of     *)
(* generate_comprehensive_summary (edit_war_summary.py), and the grouping  *)
(* of EditWarVisualizer.create_edit_war_timeline.  Each groups in a loop   *)
(* of its own, with 24 hours and 3 reverts written into it.                *)
(***************************************************************************)
\* if time_diff <= 24
InlineWindowHours == 24

\* if len(current_group) >= 3
InlineMinReverts == 3

\* A test that leaves out a gap of exactly 24 hours.
InlineWithinStrict(minutes) == minutes < 60 * InlineWindowHours

InlineWithin(minutes) == minutes <= 60 * InlineWindowHours

\* One iteration of the loop: lines 93-100 of quick_edit_war_stats.py.
InlineIteration(rs, k, gs, cur) ==
    IF InlineWithin(MinutesBetween(rs[k-1], rs[k]))
    THEN [groups |-> gs, current_group |-> Append(cur, rs[k])]
    ELSE [groups |-> IF Len(cur) >= InlineMinReverts THEN Append(gs, cur) ELSE gs,
          current_group |-> <<rs[k]>>]

RECURSIVE InlineLoop(_, _, _, _)
InlineLoop(rs, k, gs, cur) ==
    IF k > Len(rs)
    THEN IF Len(cur) >= InlineMinReverts THEN Append(gs, cur) ELSE gs
    ELSE LET it == InlineIteration(rs, k, gs, cur)
         IN  InlineLoop(rs, k + 1, it.groups, it.current_group)

\* revert_groups, for a revert list that passed 'if len(reverts) < 3: return None'.
InlineGroups(rs) == InlineLoop(rs, 2, <<>>, <<rs[1]>>)

\* list(set(...)): the distinct editors, each once, in the order of their
\* first revert.
RECURSIVE DistinctEditors(_, _, _)
DistinctEditors(group, k, acc) ==
    IF k > Len(group) THEN acc
    ELSE IF \E j \in DOMAIN acc : acc[j] = group[k].user
         THEN DistinctEditors(group, k + 1, acc)
         ELSE DistinctEditors(group, k + 1, Append(acc, group[k].user))

\* users = list(set([r['user'] for r in group]))
EditorsOfWar(group) == DistinctEditors(group, 1, <<>>)

\* The dict appended to edit_wars (lines 123-131 of quick_edit_war_stats.py).
InlineWar(group) ==
    LET intervals == Intervals(group)
    IN  [revert_count |-> Len(group),
         duration_minutes |-> MinutesBetween(group[1], group[Len(group)]),
         unique_editors |-> Len(EditorsOfWar(group)),
         editors |-> EditorsOfWar(group),
         avg_interval_minutes |-> IF intervals # <<>> THEN SeqMean(intervals) ELSE <<0, 1>>,
         start_time |-> group[1].timestamp,
         end_time |-> group[Len(group)].timestamp]

NoneValue == [none |-> TRUE]

\* The locals revert_groups and the value returned, from the revert list on.
InlinePatterns(revs, rs) ==
    IF Len(rs) < InlineMinReverts
    THEN [revert_groups |-> <<>>, value |-> NoneValue]
    ELSE LET gs == InlineGroups(rs)
         IN  IF gs = <<>>
             THEN [revert_groups |-> gs, value |-> NoneValue]
             ELSE [revert_groups |-> gs,
                   value |-> [title |-> "Page",
                              total_revisions |-> Len(revs),
                              total_reverts |-> Len(rs),
                              revert_rate |-> <<Len(rs), Len(revs)>>,
                              edit_wars |-> [k \in DOMAIN gs |-> InlineWar(gs[k])],
                              unique_editors |-> Cardinality({rs[k].user : k \in DOMAIN rs})]]

\* analyze_edit_war_patterns_quick(page_title), from the fetched revisions on.
AnalyzeEditWarPatternsQuick(revs) ==
    IF revs = <<>> THEN [revert_groups |-> <<>>, value |-> NoneValue]
    ELSE InlinePatterns(revs, DetectRevertsQuick(revs).value)

\* EditWarSummary.analyze_edit_war_patterns(page_title)
AnalyzeEditWarPatterns(revs) ==
    IF revs = <<>> THEN [revert_groups |-> <<>>, value |-> NoneValue]
    ELSE InlinePatterns(revs, DetectRevertsQuick(revs).value)

\* timeline_data of create_edit_war_timeline; escalation_level and status
\* are left to the drawing.
TimelineOf(gs) ==
    [k \in DOMAIN gs |->
        [edit_war_id |-> k,
         start_time |-> gs[k][1].timestamp,
         end_time |-> gs[k][Len(gs[k])].timestamp,
         duration_minutes |-> MinutesBetween(gs[k][1], gs[k][Len(gs[k])]),
         revert_count |-> Len(gs[k]),
         unique_editors |-> Len(EditorsOfWar(gs[k])),
         editors |-> EditorsOfWar(gs[k])]]

\* EditWarVisualizer.create_edit_war_timeline(page_title), up to timeline_data.
CreateEditWarTimeline(revs) ==
    IF revs = <<>> \/ Len(DetectRevertsQuick(revs).value) < InlineMinReverts
    THEN [revert_groups |-> <<>>, value |-> NoneValue]
    ELSE LET gs == InlineGroups(DetectRevertsQuick(revs).value)
         IN  IF gs = <<>> THEN [revert_groups |-> gs, value |-> NoneValue]
             ELSE [revert_groups |-> gs, value |-> TimelineOf(gs)]

\* editor_revert_counts = Counter(war['editors'])
CounterOf(list) ==
    [e \in {list[k] : k \in DOMAIN list} |-> Cardinality({k \in DOMAIN list : list[k] = e})]

\* for editor, count in editor_revert_counts.items(): if count >= 3: ...
RECURSIVE WarViolations(_, _, _, _)
WarViolations(article, war, k, acc) ==
    IF k > Len(war.editors) THEN acc
    ELSE IF CounterOf(war.editors)[war.editors[k]] >= 3
              /\ \A j \in 1..(k - 1) : war.editors[j] # war.editors[k]
         THEN WarViolations(article, war, k + 1,
                            Append(acc, [article |-> article.title, editor |-> war.editors[k],
                                         revert_count |-> CounterOf(war.editors)[war.editors[k]],
                                         time_window |-> war.duration_minutes]))
         ELSE WarViolations(article, war, k + 1, acc)

RECURSIVE ArticleViolations(_, _, _)
ArticleViolations(article, k, acc) ==
    IF k > Len(article.edit_wars) THEN acc
    ELSE ArticleViolations(article, k + 1, WarViolations(article, article.edit_wars[k], 1, acc))

RECURSIVE ViolationsOfArticles(_, _, _)
ViolationsOfArticles(articles, k, acc) ==
    IF k > Len(articles) THEN acc
    ELSE ViolationsOfArticles(articles, k + 1, ArticleViolations(articles[k], 1, acc))

\* detect_three_revert_violations_quick(contested_articles)
DetectThreeRevertViolationsQuick(articles) == ViolationsOfArticles(articles, 1, <<>>)

\* The violation block of generate_comprehensive_summary.
SummaryViolations(articles) == ViolationsOfArticles(articles, 1, <<>>)

\* if analysis and analysis['edit_wars']: contested_articles.append(analysis)
ContestedArticles(analysis) == IF analysis = NoneValue THEN <<>> ELSE <<analysis>>

(***************************************************************************)
(* Script specification: one call of a script function on a page whose     *)
(* first revision is a plain edit and whose other revisions are reverts,   *)
(* by two users, at gaps of 0, 24 hours or 24 hours and a minute.          *)
(***************************************************************************)
InitScript ==
    /\ cfg = DefaultConfig
    /\ \E n \in 0..MaxReverts : \E gaps \in [2..n -> GapChoices(cfg)], us \in [1..n -> Users] :
          revisions = <<MkRevision(1, TRUE, 0, TRUE, "A", TRUE, <<>>, TRUE, 100)>>
                      \o [k \in 1..n |-> MkRevision(k + 1, TRUE, TimeAt(gaps, k), TRUE, us[k], TRUE, <<"r", "v">>, TRUE, 100)]
    /\ reverts = <<>>
    /\ pc = "ready"
    /\ i = 0
    /\ current_group = <<>>
    /\ groups = <<>>
    /\ result = NoResult
    /\ user_index = 0
    /\ revert_count = 0
    /\ violations = <<>>
    /\ history = <<>>
    /\ workers = <<>>

\* analysis = analyze_edit_war_patterns_quick(title)
CallPatternsQuick ==
    /\ pc = "ready"
    /\ reverts' = DetectRevertsQuick(revisions).value
    /\ groups' = AnalyzeEditWarPatternsQuick(revisions).revert_groups
    /\ result' = Returned(AnalyzeEditWarPatternsQuick(revisions).value)
    /\ pc' = "patterns_quick_done"
    /\ UNCHANGED <<cfg, revisions, i, current_group, user_index, revert_count, violations, history, workers>>

\* analysis = summary.analyze_edit_war_patterns(title)
CallPatternsSummary ==
    /\ pc = "ready"
    /\ reverts' = DetectRevertsQuick(revisions).value
    /\ groups' = AnalyzeEditWarPatterns(revisions).revert_groups
    /\ result' = Returned(AnalyzeEditWarPatterns(revisions).value)
    /\ pc' = "patterns_summary_done"
    /\ UNCHANGED <<cfg, revisions, i, current_group, user_index, revert_count, violations, history, workers>>

\* visualizer.create_edit_war_timeline(title)
CallTimeline ==
    /\ pc = "ready"
    /\ reverts' = DetectRevertsQuick(revisions).value
    /\ groups' = CreateEditWarTimeline(revisions).revert_groups
    /\ result' = Returned(CreateEditWarTimeline(revisions).value)
    /\ pc' = "timeline_done"
    /\ UNCHANGED <<cfg, revisions, i, current_group, user_index, revert_count, violations, history, workers>>

\* violations = detect_three_revert_violations_quick(contested_articles), on
\* the articles found by find_contested_articles_quick.
CallViolationsQuick ==
    /\ pc = "ready"
    /\ reverts' = DetectRevertsQuick(revisions).value
    /\ groups' = AnalyzeEditWarPatternsQuick(revisions).revert_groups
    /\ result' = Returned(DetectThreeRevertViolationsQuick(ContestedArticles(AnalyzeEditWarPatternsQuick(revisions).value)))
    /\ pc' = "violations_quick_done"
    /\ UNCHANGED <<cfg, revisions, i, current_group, user_index, revert_count, violations, history, workers>>

\* The violation block of generate_comprehensive_summary, on the articles
\* analyzed by analyze_edit_war_patterns.
CallViolationsSummary ==
    /\ pc = "ready"
    /\ reverts' = DetectRevertsQuick(revisions).value
    /\ groups' = AnalyzeEditWarPatterns(revisions).revert_groups
    /\ result' = Returned(SummaryViolations(ContestedArticles(AnalyzeEditWarPatterns(revisions).value)))
    /\ pc' = "violations_summary_done"
    /\ UNCHANGED <<cfg, revisions, i, current_group, user_index, revert_count, violations, history, workers>>

NextScript ==
    \/ CallPatternsQuick
    \/ CallPatternsSummary
    \/ CallTimeline
    \/ CallViolationsQuick
    \/ CallViolationsSummary

SpecScript == InitScript /\ [][NextScript]_vars

(***************************************************************************)
(* Parallel specification: two workers run detect_edit_wars side by side,  *)
(* each on the revisions of its own page, their steps interleaved.  The    *)
(* analyzer groups at 2 reverts within an hour; a page's revisions are     *)
(* evenly spaced, 60 or 61 minutes apart, by A and B in turn.              *)
(***************************************************************************)
WorkerIds == {1, 2}

ParallelConfig == [revert_threshold |-> 2, time_window_hours |-> 1, min_editors |-> 2]

Spacings == {60, 61}

Documents ==
    UNION {{[k \in 1..n |-> MkRevision(k, TRUE, gap * k, TRUE, IF k % 2 = 1 THEN "A" ELSE "B", TRUE, cs[k], TRUE, 100)] :
               gap \in Spacings, cs \in [1..n -> KindChoices]} : n \in 0..MaxDocument}

\* The local variables of a call in the frame of another call.
FrameShared(w) == 1

\* The local variables of a call live in the frame of that call.
FrameOf(w) == w

NoFrame == [groups |-> <<>>, current_group |-> <<>>, i |-> 0]

InitParallel ==
    /\ cfg = ParallelConfig
    /\ revisions = <<>>
    /\ reverts = <<>>
    /\ pc = "ready"
    /\ i = 0
    /\ current_group = <<>>
    /\ groups = <<>>
    /\ result = NoResult
    /\ user_index = 0
    /\ revert_count = 0
    /\ violations = <<>>
    /\ history = <<>>
    /\ \E docs \in [WorkerIds -> Documents] :
          workers = [run |-> [w \in WorkerIds |->
                                [revisions |-> docs[w], pc |-> "start", reverts |-> <<>>, revert_groups |-> <<>>,
                                 edit_wars |-> <<>>, editor_participation |-> <<>>, overlapped |-> FALSE,
                                 result |-> NoResult]],
                     frame |-> [f \in WorkerIds |-> NoFrame]]

Run(w) == workers.run[w]

Frame(w) == workers.frame[FrameOf(w)]

\* revisions = self.get_page_revisions(...); if not revisions: return {};
\* reverts = self.detect_reverts(revisions)
WorkerClassify(w) ==
    /\ Run(w).pc = "start"
    /\ IF Run(w).revisions = <<>>
       THEN workers' = [workers EXCEPT !.run[w].pc = "done", !.run[w].result = Returned(EmptyDict)]
       ELSE workers' = [workers EXCEPT !.run[w].pc = "guard",
                                       !.run[w].reverts = DetectReverts(Run(w).revisions).value]
    /\ UNCHANGED <<cfg, revisions, reverts, pc, i, current_group, groups, result, user_index, revert_count, violations, history>>

\* if len(reverts) >= self.revert_threshold: ... groups = []; current_group = [reverts[0]]
WorkerGroupEnter(w) ==
    /\ Run(w).pc = "guard"
    /\ IF Len(Run(w).reverts) >= cfg.revert_threshold
       THEN workers' = [workers EXCEPT !.run[w].pc = "group_loop",
                                       !.frame[FrameOf(w)] = [groups |-> <<>>, current_group |-> <<Run(w).reverts[1]>>, i |-> 2]]
       ELSE workers' = [workers EXCEPT !.run[w].pc = "participation"]
    /\ UNCHANGED <<cfg, revisions, reverts, pc, i, current_group, groups, result, user_index, revert_count, violations, history>>

\* for i in range(1, len(reverts)): ...
WorkerGroupStep(w) ==
    /\ Run(w).pc = "group_loop"
    /\ Frame(w).i <= Len(Run(w).reverts)
    /\ LET it == GroupIteration(Run(w).reverts, Frame(w).i, Frame(w).groups, Frame(w).current_group, cfg)
       IN  workers' = [workers EXCEPT !.frame[FrameOf(w)] = [groups |-> it.groups, current_group |-> it.current_group, i |-> Frame(w).i + 1],
                                      !.run[w].overlapped = @ \/ \E v \in WorkerIds \ {w} : Run(v).pc = "group_loop"]
    /\ UNCHANGED <<cfg, revisions, reverts, pc, i, current_group, groups, result, user_index, revert_count, violations, history>>

\* if len(current_group) >= self.revert_threshold: ...; return groups
WorkerGroupExit(w) ==
    /\ Run(w).pc = "group_loop"
    /\ Frame(w).i > Len(Run(w).reverts)
    /\ workers' = [workers EXCEPT !.run[w].pc = "statistics",
                                  !.run[w].revert_groups = CloseGroup(Frame(w).groups, Frame(w).current_group, cfg)]
    /\ UNCHANGED <<cfg, revisions, reverts, pc, i, current_group, groups, result, user_index, revert_count, violations, history>>

\* for group in revert_groups: ... edit_war_data['edit_wars'].append(war_data)
WorkerStatistics(w) ==
    /\ Run(w).pc = "statistics"
    /\ workers' = [workers EXCEPT !.run[w].pc = "participation",
                                  !.run[w].edit_wars = WarsOfGroups(Run(w).revert_groups, 1, cfg)]
    /\ UNCHANGED <<cfg, revisions, reverts, pc, i, current_group, groups, result, user_index, revert_count, violations, history>>

\* edit_war_data['editor_participation'] = self._analyze_editor_participation(revisions, reverts)
WorkerParticipation(w) ==
    /\ Run(w).pc = "participation"
    /\ workers' = [workers EXCEPT !.run[w].pc = "scan",
                                  !.run[w].editor_participation = AnalyzeEditorParticipation(Run(w).revisions, Run(w).reverts)]
    /\ UNCHANGED <<cfg, revisions, reverts, pc, i, current_group, groups, result, user_index, revert_count, violations, history>>

\* edit_war_data['three_revert_violations'] = ...; return edit_war_data
WorkerScan(w) ==
    /\ Run(w).pc = "scan"
    /\ workers' = [workers EXCEPT !.run[w].pc = "done",
                                  !.run[w].result =
                                      Returned([total_revisions |-> Len(Run(w).revisions),
                                                total_reverts |-> Len(Run(w).reverts),
                                                revert_rate |-> <<Len(Run(w).reverts), Len(Run(w).revisions)>>,
                                                edit_wars |-> Run(w).edit_wars,
                                                revert_intervals |-> <<>>,
                                                editor_participation |-> Run(w).editor_participation,
                                                three_revert_violations |-> DetectThreeRevertViolations(Run(w).revisions).value])]
    /\ UNCHANGED <<cfg, revisions, reverts, pc, i, current_group, groups, result, user_index, revert_count, violations, history>>

NextParallel ==
    \E w \in WorkerIds :
        \/ WorkerClassify(w)
        \/ WorkerGroupEnter(w)
        \/ WorkerGroupStep(w)
        \/ WorkerGroupExit(w)
        \/ WorkerStatistics(w)
        \/ WorkerParticipation(w)
        \/ WorkerScan(w)

SpecParallel == InitParallel /\ [][NextParallel]_vars

(***************************************************************************)
(* Properties of the grouping specification.                               *)
(***************************************************************************)
\* Position in the input list of the revert with the given revision id.
IndexOf(rs, id) == CHOOSE k \in DOMAIN rs : rs[k].revid = id

GapMinutes(rs, k) == ParseTimestamp(rs[k+1].timestamp) - ParseTimestamp(rs[k].timestamp)

WindowMinutes == 60 * cfg.time_window_hours

AllWithinWindow(rs) == \A k \in 1..(Len(rs) - 1) : GapMinutes(rs, k) <= WindowMinutes

GroupReturned == pc = "group_done" /\ result.status = "ok"

WarsReturned == pc = "wars_done" /\ result.status = "ok"

\* C1: every group closed into the output during the pass, every group of the
\* returned list and every 'edit_wars' entry has at least revert_threshold
\* members.
C1_MinimumSize ==
    /\ pc = "group_loop" => \A k \in DOMAIN groups : Len(groups[k]) >= cfg.revert_threshold
    /\ GroupReturned => \A k \in DOMAIN result.value : Len(result.value[k]) >= cfg.revert_threshold
    /\ WarsReturned => \A k \in DOMAIN result.value : result.value[k].revert_count >= cfg.revert_threshold

\* A too small group was closed mid-pass, one group was emitted, and the final
\* open group was too small as well.
C1_Witness ==
    /\ GroupReturned
    /\ Len(result.value) = 1
    /\ result.value[1][1].revid > reverts[1].revid
    /\ result.value[1][Len(result.value[1])].revid < reverts[Len(reverts)].revid

\* C2: in every emitted episode consecutive members are at most window_hours
\* apart.
C2_ConsecutiveGaps ==
    GroupReturned =>
        \A k \in DOMAIN result.value : AllWithinWindow(result.value[k])

\* An emitted episode that spans more than the window from its first to its
\* last member: the gap is taken to the previous member.
C2_Witness ==
    /\ GroupReturned
    /\ \E k \in DOMAIN result.value :
          LET g == result.value[k]
          IN  ParseTimestamp(g[Len(g)].timestamp) - ParseTimestamp(g[1].timestamp) > WindowMinutes

\* C3: a revert joins the open group exactly when its gap to the previous
\* revert is at most window_hours, otherwise it opens a new group; the reverts
\* next to an emitted episode in the input are more than window_hours away.
C3_StepRule ==
    (pc = "group_loop" /\ i <= Len(reverts) /\ i' = i + 1) =>
        /\ (GapMinutes(reverts, i - 1) <= WindowMinutes) <=> (current_group' = Append(current_group, reverts[i]))
        /\ (GapMinutes(reverts, i - 1) > WindowMinutes) <=> (current_group' = <<reverts[i]>>)

C3_Boundaries ==
    GroupReturned =>
        \A k \in DOMAIN result.value :
            LET g == result.value[k]
                a == IndexOf(reverts, g[1].revid)
                b == IndexOf(reverts, g[Len(g)].revid)
            IN  /\ a > 1 => GapMinutes(reverts, a - 1) > WindowMinutes
                /\ b < Len(reverts) => GapMinutes(reverts, b) > WindowMinutes

C3_Maximal == [][C3_StepRule]_vars /\ []C3_Boundaries

\* An emitted episode with a revert before it and a revert after it, holding a
\* gap of exactly window_hours.
C3_Witness ==
    /\ GroupReturned
    /\ \E k \in DOMAIN result.value :
          LET g == result.value[k]
          IN  /\ g[1].revid > reverts[1].revid
              /\ g[Len(g)].revid < reverts[Len(reverts)].revid
              /\ \E j \in 1..(Len(g) - 1) : GapMinutes(g, j) = WindowMinutes

\* C4: fewer than revert_threshold reverts give no episode; exactly
\* revert_threshold reverts with all gaps within the window give the single
\* episode of all of them in input order.
C4_Boundary ==
    /\ GroupReturned =>
          /\ Len(reverts) < cfg.revert_threshold => result.value = <<>>
          /\ (Len(reverts) = cfg.revert_threshold /\ AllWithinWindow(reverts)) => result.value = <<reverts>>
    /\ WarsReturned =>
          /\ Len(reverts) < cfg.revert_threshold => result.value = <<>>
          /\ (Len(reverts) = cfg.revert_threshold /\ AllWithinWindow(reverts)) =>
                /\ Len(result.value) = 1
                /\ result.value[1].revert_count = Len(reverts)
                /\ result.value[1].start_time = reverts[1].timestamp
                /\ result.value[1].end_time = reverts[Len(reverts)].timestamp

\* Exactly revert_threshold reverts, one of the gaps on the boundary, returned
\* as one episode.
C4_Witness ==
    /\ GroupReturned
    /\ Len(reverts) = cfg.revert_threshold
    /\ AllWithinWindow(reverts)
    /\ \E k \in 1..(Len(reverts) - 1) : GapMinutes(reverts, k) = WindowMinutes
    /\ result.value = <<reverts>>

\* C10: every 'edit_wars' entry has at least min_editors distinct editors.
C10_MultipleEditors ==
    WarsReturned => \A k \in DOMAIN result.value : result.value[k].unique_editors >= cfg.min_editors

(***************************************************************************)
(* Properties of the classification specification.  The revisions of its   *)
(* inputs are one minute apart, revision k at minute k, so the timestamp   *)
(* of a revert tells which revision it is.                                 *)
(***************************************************************************)
ClassifierReturned == pc \in {"detect_done", "quick_done"}

\* The indexes of the revisions classified as reverts.
Selected == {ParseTimestamp(result.value[k].timestamp) : k \in DOMAIN result.value}

\* The indicator substrings of the claims.
ClaimIndicators ==
    {<<"r", "e", "v", "e", "r", "t">>, <<"u", "n", "d", "o">>, <<"r", "v">>,
     <<"r", "o", "l", "l", "b", "a", "c", "k">>, <<"r", "e", "s", "t", "o", "r", "e">>,
     <<"r", "e", "v", "e", "r", "t", "e", "d">>}

LowerCase == [R |-> "r", V |-> "v", U |-> "u", E |-> "e", T |-> "t", D |-> "d", N |-> "n", O |-> "o"]

ClaimLower(ch) == IF ch \in DOMAIN LowerCase THEN LowerCase[ch] ELSE ch

\* The lower-cased comment of the revision contains an indicator.
HasIndicator(rev) ==
    /\ rev.has.comment
    /\ \E ind \in ClaimIndicators : \E off \in 0..Len(rev.comment) :
          /\ off + Len(ind) <= Len(rev.comment)
          /\ \A j \in 1..Len(ind) : ClaimLower(rev.comment[off + j]) = ind[j]

SizeAbsent(k) == ~revisions[k].has.size \/ ~revisions[k-1].has.size

\* Both sizes present and |size[k] - size[k-1]| / max(size[k], 1) < 0.10.
SizeRatioBelowTenth(k) ==
    /\ ~SizeAbsent(k)
    /\ LET d == revisions[k].size - revisions[k-1].size
           m == IF revisions[k].size > 1 THEN revisions[k].size ELSE 1
       IN  (IF d < 0 THEN -d ELSE d) * 10 < m

Later == 2..Len(revisions)

\* C5 as claimed: every classifier selects the revision at index i > 0 exactly
\* when its comment contains an indicator, whatever the sizes.
C5_CommentAlone ==
    ClassifierReturned =>
        /\ result.status = "ok"
        /\ Selected = {k \in Later : HasIndicator(revisions[k])}

\* C5 amended: the comment-only classifiers select exactly the revisions whose
\* comment contains an indicator; EditWarAnalyzer.detect_reverts selects
\* exactly those that in addition have both sizes present with ratio < 0.10.
C5_Classification ==
    /\ pc = "quick_done" =>
          /\ result.status = "ok"
          /\ Selected = {k \in Later : HasIndicator(revisions[k])}
    /\ pc = "detect_done" =>
          /\ result.status = "ok"
          /\ Selected = {k \in Later : HasIndicator(revisions[k]) /\ SizeRatioBelowTenth(k)}

\* The analyzer selected a revision commented "RV" and left out one with an
\* indicator in its comment whose size differs by 10% or more.
C5_Witness ==
    /\ pc = "detect_done"
    /\ result.status = "ok"
    /\ \E k \in Selected : revisions[k].comment = <<"R", "V">>
    /\ \E k \in Later \ Selected :
          HasIndicator(revisions[k]) /\ ~SizeAbsent(k) /\ ~SizeRatioBelowTenth(k)

\* C6: the first revision is never a revert; every revert is a revision at
\* index >= 1 (here >= 2), so n >= 1 revisions give at most n - 1 reverts.
C6_FirstNeverRevert ==
    ClassifierReturned =>
        /\ result.status = "ok"
        /\ Selected \subseteq Later
        /\ pc = "detect_done" => \A k \in DOMAIN result.value : result.value[k].revid >= 2
        /\ Len(revisions) >= 1 => Len(result.value) <= Len(revisions) - 1
        /\ Len(revisions) = 1 => result.value = <<>>

\* The first revision has an indicator in its comment and every later
\* revision was classified as a revert.
C6_Witness ==
    /\ pc = "quick_done"
    /\ result.status = "ok"
    /\ Len(revisions) >= 2
    /\ HasIndicator(revisions[1])
    /\ Len(result.value) = Len(revisions) - 1

\* C7 as claimed: in EditWarAnalyzer.detect_reverts a revision with an
\* indicator in its comment is a revert when a size is absent, a revision
\* without comment never is, and no error is raised.
C7_SizeOptional ==
    pc = "detect_done" =>
        /\ result.status = "ok"
        /\ \A k \in Later :
              /\ (SizeAbsent(k) /\ HasIndicator(revisions[k])) => k \in Selected
              /\ ~revisions[k].has.comment => k \notin Selected

\* C7 amended: no absent size or comment raises an error; in
\* EditWarAnalyzer.detect_reverts a revision is not a revert when its size or
\* the preceding size is absent; in the comment-only classifiers a revision
\* with an indicator is a revert and records size 0 when its size is absent;
\* a revision without comment is never a revert.
C7_MissingFields ==
    /\ pc = "detect_done" =>
          /\ result.status = "ok"
          /\ \A k \in Later :
                /\ SizeAbsent(k) => k \notin Selected
                /\ ~revisions[k].has.comment => k \notin Selected
    /\ pc = "quick_done" =>
          /\ result.status = "ok"
          /\ \A k \in Later :
                /\ HasIndicator(revisions[k]) => k \in Selected
                /\ ~revisions[k].has.comment => k \notin Selected
          /\ \A j \in DOMAIN result.value :
                LET k == ParseTimestamp(result.value[j].timestamp)
                IN  result.value[j].size = IF revisions[k].has.size THEN revisions[k].size ELSE 0

\* The analyzer returned normally on a history holding a revision with an
\* indicator and no size, and a revision without comment.
C7_Witness ==
    /\ pc = "detect_done"
    /\ result.status = "ok"
    /\ \E k \in Later : HasIndicator(revisions[k]) /\ ~revisions[k].has.size
    /\ \E k \in Later : ~revisions[k].has.comment

(***************************************************************************)
(* Properties of the engine specification.                                 *)
(***************************************************************************)
CallReturned == pc # "ready"

LacksTimestamp == \E k \in DOMAIN revisions : ~revisions[k].has.timestamp

\* C8: every engine call on a history that holds a revision without
\* timestamp fails with an error.
C8_TimestampRequired == (CallReturned /\ LacksTimestamp) => result.status = "KeyError"

\* C9: on the empty revision list every engine call returns normally and
\* empty: no reverts, no groups, no violations, zero editors with an empty
\* breakdown, and the empty result of detect_edit_wars.
C9_EmptyInput ==
    (CallReturned /\ revisions = <<>>) =>
        /\ result.status = "ok"
        /\ pc \in {"detect_done", "group_done", "violations_done"} => result.value = <<>>
        /\ pc = "group_done" => reverts = <<>>
        /\ pc = "participation_done" =>
              /\ reverts = <<>>
              /\ result.value.total_editors = 0
              /\ DOMAIN result.value.editor_breakdown = {}
              /\ result.value.new_editors = 0
              /\ result.value.intermediate_editors = 0
              /\ result.value.veteran_editors = 0
        /\ pc = "edit_wars_done" => DOMAIN result.value = {}

\* detect_edit_wars returned on the empty revision list.
C9_Witness == revisions = <<>> /\ pc = "edit_wars_done" /\ result.status = "ok"

(***************************************************************************)
(* The three-revert scanner (ThreeRevertScanner).  An editor's revisions   *)
(* are taken in the order of the history, which is the chronological one   *)
(* here; positions count from 1, so that the pair j is the one of the      *)
(* revisions at positions j - 1 and j.                                     *)
(***************************************************************************)
ScanReturned == pc = "scan_done" /\ result.status = "ok"

EditorsPresent == {IF revisions[k].has.user THEN revisions[k].user ELSE "Anonymous" : k \in DOMAIN revisions}

RevisionsBy(u) == SelectSeq(revisions, LAMBDA r : (IF r.has.user THEN r.user ELSE "Anonymous") = u)

\* Both sizes known and less than 100 bytes apart.
LikePair(u, j) ==
    LET rs == RevisionsBy(u)
    IN  /\ rs[j].has.size /\ rs[j-1].has.size
        /\ rs[j].size - rs[j-1].size < 100
        /\ rs[j-1].size - rs[j].size < 100

\* The revert-like pairs from the editor's first revision up to position j.
LikeCount(u, j) == Cardinality({m \in 2..j : LikePair(u, m)})

PairGap(u, j) == GapMinutes(RevisionsBy(u), j - 1)

DayMinutes == 24 * 60

Flagged(u, j) == PairGap(u, j) <= DayMinutes /\ LikeCount(u, j) >= 3

FlaggedPositions(u) == {j \in 2..Len(RevisionsBy(u)) : Flagged(u, j)}

FirstFlagged(u) == CHOOSE j \in FlaggedPositions(u) : \A m \in FlaggedPositions(u) : j <= m

ViolationsOf(u) == {k \in DOMAIN result.value : result.value[k].user = u}

\* The position, among the editor's revisions, of the revision a violation names.
PositionOf(v) == CHOOSE j \in DOMAIN RevisionsBy(v.user) : RevisionsBy(v.user)[j].timestamp = v.timestamp

\* C11: a scan reports at most one violation per editor, during the scan
\* and in what it returns.
C11_OnePerEditor ==
    /\ \A a, b \in DOMAIN violations : violations[a].user = violations[b].user => a = b
    /\ ScanReturned => \A u \in EditorsPresent : Cardinality(ViolationsOf(u)) <= 1

\* The scan returned a violation of an editor who meets the condition again
\* at a later revision.
C11_Witness ==
    /\ ScanReturned
    /\ \E u \in EditorsPresent : ViolationsOf(u) # {} /\ Cardinality(FlaggedPositions(u)) >= 2

\* C12: an editor is reported exactly when some pair of theirs is at most 24
\* hours apart with the running counter, that pair included, at 3 or more;
\* the record is that of the first such pair: the later revision's
\* timestamp, the counter as revert_count and the pair's gap as the window.
\* So five revisions with four revert-like pairs, all at most 24 hours
\* apart, give one violation at the fourth revision with revert_count 3.
C12_FirstEmission ==
    ScanReturned =>
        \A u \in EditorsPresent :
            IF FlaggedPositions(u) = {}
            THEN ViolationsOf(u) = {}
            ELSE \E k \in DOMAIN result.value :
                    /\ ViolationsOf(u) = {k}
                    /\ result.value[k].timestamp = RevisionsBy(u)[FirstFlagged(u)].timestamp
                    /\ result.value[k].revert_count = LikeCount(u, FirstFlagged(u))
                    /\ result.value[k].time_window_minutes = PairGap(u, FirstFlagged(u))

\* The example: an editor with five revisions, every pair revert-like and
\* at most 24 hours apart, reported at the fourth revision with count 3.
C12_Witness ==
    /\ ScanReturned
    /\ \E u \in EditorsPresent :
          /\ Len(RevisionsBy(u)) = 5
          /\ \A j \in 2..5 : LikePair(u, j) /\ PairGap(u, j) <= DayMinutes
          /\ \E k \in DOMAIN result.value :
                /\ ViolationsOf(u) = {k}
                /\ result.value[k].timestamp = RevisionsBy(u)[4].timestamp
                /\ result.value[k].revert_count = 3

\* C13: only editors with at least 4 revisions are reported, and a
\* violation names their fourth revision or a later one.
C13_FourthOrLater ==
    ScanReturned =>
        \A k \in DOMAIN result.value :
            /\ Len(RevisionsBy(result.value[k].user)) >= 4
            /\ PositionOf(result.value[k]) >= 4

\* An editor with exactly four revisions is reported at the fourth, and
\* an editor with fewer revisions is not reported.
C13_Witness ==
    /\ ScanReturned
    /\ \E k \in DOMAIN result.value :
          /\ Len(RevisionsBy(result.value[k].user)) = 4
          /\ PositionOf(result.value[k]) = 4
    /\ \E u \in EditorsPresent : Len(RevisionsBy(u)) < 4

\* C14: the counter never goes down while an editor's pairs are walked, and
\* a violation's revert_count is the number of revert-like pairs from the
\* editor's first revision up to the flagged one, however far back they lie.
C14_LifetimeCounter ==
    /\ [][(pc = "scan_pairs" /\ pc' = "scan_pairs") => revert_count' >= revert_count]_vars
    /\ [](ScanReturned =>
            \A k \in DOMAIN result.value :
                result.value[k].revert_count = LikeCount(result.value[k].user, PositionOf(result.value[k])))

\* A violation whose count includes a pair more than 24 hours apart, which
\* itself lies more than 24 hours before the flagged revision.
C14_Witness ==
    /\ ScanReturned
    /\ \E k \in DOMAIN result.value :
          \E m \in 2..(PositionOf(result.value[k]) - 1) :
              /\ LikePair(result.value[k].user, m)
              /\ PairGap(result.value[k].user, m) > DayMinutes

\* The pairs the configuration would flag: gap within time_window_hours and
\* counter at revert_threshold or more.
ConfiguredPositions(u) ==
    {j \in 2..Len(RevisionsBy(u)) :
        PairGap(u, j) <= 60 * cfg.time_window_hours /\ LikeCount(u, j) >= cfg.revert_threshold}

\* C15 as claimed: the scanner reports an editor exactly when some pair is
\* within the configured time_window_hours with the counter at the
\* configured revert_threshold or more, at the first such pair.
C15_ConfiguredRule ==
    ScanReturned =>
        \A u \in EditorsPresent :
            IF ConfiguredPositions(u) = {}
            THEN ViolationsOf(u) = {}
            ELSE \E k \in DOMAIN result.value :
                    /\ ViolationsOf(u) = {k}
                    /\ \A j \in ConfiguredPositions(u) : PositionOf(result.value[k]) <= j
                    /\ PositionOf(result.value[k]) \in ConfiguredPositions(u)

\* C15: whatever revert_threshold and time_window_hours the analyzer
\* carries, the scanner reports an editor exactly when some pair is at most
\* 24 hours apart with the counter at 3 or more, and every reported record
\* has a window of at most 24 hours and a count of at least 3.
C15_FixedRule ==
    ScanReturned =>
        /\ \A u \in EditorsPresent : (ViolationsOf(u) # {}) <=> (FlaggedPositions(u) # {})
        /\ \A k \in DOMAIN result.value :
              /\ result.value[k].time_window_minutes <= DayMinutes
              /\ result.value[k].revert_count >= 3
              /\ PositionOf(result.value[k]) = FirstFlagged(result.value[k].user)

\* An analyzer configured with a window of one hour and a threshold of 2
\* reports a pair 24 hours apart, and not the earlier pair that is within the
\* hour with a count of 2.
C15_Witness ==
    /\ ScanReturned
    /\ cfg.time_window_hours = 1 /\ cfg.revert_threshold = 2
    /\ \E k \in DOMAIN result.value :
          /\ result.value[k].time_window_minutes = DayMinutes
          /\ \E j \in ConfiguredPositions(result.value[k].user) : j < PositionOf(result.value[k])

(***************************************************************************)
(* The participation analyzer (ParticipationAnalyzer).                     *)
(***************************************************************************)
ParticipationReturned == pc = "participation_done" /\ result.status = "ok"

Profiles == result.value.editor_breakdown

\* C16: there is one profile per distinct editor of the revisions, the
\* revisions without editor counting as 'Anonymous', and none for anyone
\* else; its total_edits is the number of the editor's revisions and its
\* reverts the number of reverts by the editor.
C16_OneProfilePerEditor ==
    ParticipationReturned =>
        /\ DOMAIN Profiles = EditorsPresent
        /\ result.value.total_editors = Cardinality(EditorsPresent)
        /\ \A u \in EditorsPresent :
              /\ Profiles[u].total_edits = Len(RevisionsBy(u))
              /\ Profiles[u].reverts = Len(SelectSeq(reverts, LAMBDA r : r.user = u))

\* Profiles for 'Anonymous' and two named editors, one of them without a
\* revert, when there are reverts by others.
C16_Witness ==
    /\ ParticipationReturned
    /\ DOMAIN Profiles = {"A", "B", "Anonymous"}
    /\ \E k \in DOMAIN revisions : ~revisions[k].has.user
    /\ Profiles["Anonymous"].reverts = 1
    /\ Profiles["A"].reverts = 0
    /\ Profiles["B"].reverts = 1

RECURSIVE TotalEdits(_)
TotalEdits(editors) ==
    IF editors = {} THEN 0
    ELSE LET u == CHOOSE x \in editors : TRUE IN Profiles[u].total_edits + TotalEdits(editors \ {u})

\* C17: the total_edits of the profiles add up to the number of revisions,
\* those without editor included.
C17_Conservation == ParticipationReturned => TotalEdits(DOMAIN Profiles) = Len(revisions)

\* Several editors, among them revisions without editor.
C17_Witness ==
    /\ ParticipationReturned
    /\ Cardinality(DOMAIN Profiles) = 3
    /\ Cardinality({k \in DOMAIN revisions : ~revisions[k].has.user}) >= 2

InTier(level) == {u \in DOMAIN Profiles : Profiles[u].experience_level = level}

\* C18: a profile is 'new' below 10 edits, 'intermediate' from 10 to 99 and
\* 'veteran' from 100 on; the three counters count the profiles of their
\* tier and add up to total_editors.
C18_Tiers ==
    ParticipationReturned =>
        /\ \A u \in DOMAIN Profiles :
              /\ Profiles[u].experience_level = "new" <=> Profiles[u].total_edits < 10
              /\ Profiles[u].experience_level = "intermediate" <=>
                    (10 <= Profiles[u].total_edits /\ Profiles[u].total_edits < 100)
              /\ Profiles[u].experience_level = "veteran" <=> Profiles[u].total_edits >= 100
        /\ result.value.new_editors = Cardinality(InTier("new"))
        /\ result.value.intermediate_editors = Cardinality(InTier("intermediate"))
        /\ result.value.veteran_editors = Cardinality(InTier("veteran"))
        /\ result.value.new_editors + result.value.intermediate_editors + result.value.veteran_editors
              = result.value.total_editors

\* A veteran with exactly 100 edits, an intermediate with exactly 10 and a
\* new editor.
C18_Witness ==
    /\ ParticipationReturned
    /\ \E a, b, c \in DOMAIN Profiles :
          /\ Profiles[a].total_edits = 100 /\ Profiles[a].experience_level = "veteran"
          /\ Profiles[b].total_edits = 10 /\ Profiles[b].experience_level = "intermediate"
          /\ Profiles[c].experience_level = "new"
    /\ result.value.total_editors = 3

\* An intermediate editor with exactly 99 edits beside a new one with 9.
C18_Boundaries ==
    /\ ParticipationReturned
    /\ \E a, b \in DOMAIN Profiles :
          /\ Profiles[a].total_edits = 99 /\ Profiles[a].experience_level = "intermediate"
          /\ Profiles[b].total_edits = 9 /\ Profiles[b].experience_level = "new"

(***************************************************************************)
(* The statistics of an episode (EpisodeStatistics).  An episode is a      *)
(* maximal run lo..hi of reverts with every gap within the window, of at   *)
(* least revert_threshold members.                                         *)
(***************************************************************************)
Episodes ==
    {e \in (DOMAIN reverts) \X (DOMAIN reverts) :
        /\ e[1] <= e[2]
        /\ \A k \in e[1]..(e[2] - 1) : GapMinutes(reverts, k) <= WindowMinutes
        /\ e[1] = 1 \/ GapMinutes(reverts, e[1] - 1) > WindowMinutes
        /\ e[2] = Len(reverts) \/ GapMinutes(reverts, e[2]) > WindowMinutes
        /\ e[2] - e[1] + 1 >= cfg.revert_threshold}

\* The n - 1 gaps between the consecutive members of the episode, in order.
EpisodeGaps(e) == [j \in 1..(e[2] - e[1]) |-> GapMinutes(reverts, e[1] + j - 1)]

RECURSIVE GapsTotal(_, _)
GapsTotal(gaps, j) == IF j = 0 THEN 0 ELSE gaps[j] + GapsTotal(gaps, j - 1)

\* C19: the statistics of an episode are its first and last timestamps,
\* their difference as duration, the set of its members' editors, and the
\* minimum, maximum and mean of the gaps between consecutive members; so
\* reverts at 0h, 1h, 2h by A, B, A under window 24 and threshold 3 are one
\* episode of 2 hours, participants {A, B}, gaps of 60 and 60 minutes.
C19_Statistics ==
    WarsReturned =>
        /\ Len(result.value) = Cardinality(Episodes)
        /\ \A e \in Episodes : \E k \in DOMAIN result.value :
              /\ result.value[k].start_time = reverts[e[1]].timestamp
              /\ result.value[k].end_time = reverts[e[2]].timestamp
              /\ result.value[k].duration_minutes =
                    ParseTimestamp(reverts[e[2]].timestamp) - ParseTimestamp(reverts[e[1]].timestamp)
              /\ result.value[k].revert_count = e[2] - e[1] + 1
              /\ result.value[k].editors = {reverts[j].user : j \in e[1]..e[2]}
              /\ result.value[k].unique_editors = Cardinality({reverts[j].user : j \in e[1]..e[2]})
              /\ \E j \in DOMAIN EpisodeGaps(e) : result.value[k].min_interval_minutes = EpisodeGaps(e)[j]
              /\ \A j \in DOMAIN EpisodeGaps(e) : result.value[k].min_interval_minutes <= EpisodeGaps(e)[j]
              /\ \E j \in DOMAIN EpisodeGaps(e) : result.value[k].max_interval_minutes = EpisodeGaps(e)[j]
              /\ \A j \in DOMAIN EpisodeGaps(e) : result.value[k].max_interval_minutes >= EpisodeGaps(e)[j]
              /\ result.value[k].avg_interval_minutes = <<GapsTotal(EpisodeGaps(e), e[2] - e[1]), e[2] - e[1]>>

\* The example: reverts at 0h, 1h, 2h by A, B, A under the default
\* configuration.
C19_Witness ==
    /\ WarsReturned
    /\ cfg.time_window_hours = 24 /\ cfg.revert_threshold = 3
    /\ Len(reverts) = 3
    /\ \A k \in 1..3 : ParseTimestamp(reverts[k].timestamp) = 60 * (k - 1)
    /\ reverts[1].user = "A" /\ reverts[2].user = "B" /\ reverts[3].user = "A"
    /\ Len(result.value) = 1
    /\ result.value[1].duration_minutes = 120
    /\ result.value[1].editors = {"A", "B"}
    /\ result.value[1].min_interval_minutes = 60
    /\ result.value[1].max_interval_minutes = 60
    /\ result.value[1].avg_interval_minutes = <<120, 2>>

\* An episode with unequal gaps and a repeated editor.
C19_Unequal ==
    /\ WarsReturned
    /\ \E k \in DOMAIN result.value :
          /\ result.value[k].min_interval_minutes < result.value[k].max_interval_minutes
          /\ result.value[k].unique_editors < result.value[k].revert_count
          /\ result.value[k].unique_editors = 2

(***************************************************************************)
(* Repeated calls on one analyzer.                                         *)
(***************************************************************************)
Repeated == pc \in DOMAIN history /\ history[pc] # NoResult

\* C20: a repeated call of detect_reverts, _group_reverts_by_time or
\* _analyze_editor_participation on the same input returns what its first
\* call returned, whatever calls were made in between.
C20_Idempotent == Repeated => result = history[pc]

\* _group_reverts_by_time returns an episode for the second time, after the
\* other two operations have been called as well.
C20_Witness ==
    /\ pc = "group_done"
    /\ Repeated
    /\ result.value # <<>>
    /\ history.detect_done # NoResult
    /\ history.participation_done # NoResult

(***************************************************************************)
(* Side effects of the engine components.                                  *)
(***************************************************************************)
\* C21: no step of detect_reverts, _group_reverts_by_time,
\* _analyze_edit_war_group, _analyze_editor_participation or
\* _detect_three_revert_violations changes the caller's revision list, the
\* caller's revert list or the analyzer's configuration.
C21_NoSideEffects == [][revisions' = revisions /\ reverts' = reverts /\ cfg' = cfg]_vars

\* The scanner has sorted the partition of an editor whose revisions were
\* passed out of order, and reported the editor.
C21_Witness ==
    /\ pc = "scan_done"
    /\ result.status = "ok"
    /\ result.value # <<>>
    /\ \E k \in 1..(Len(revisions) - 1) :
          /\ revisions[k].user = revisions[k+1].user
          /\ ParseTimestamp(revisions[k+1].timestamp) < ParseTimestamp(revisions[k].timestamp)

(***************************************************************************)
(* Runs side by side.                                                      *)
(***************************************************************************)
\* C22: under every interleaving of the steps of two runs of the pipeline,
\* the result of each run is the result of detect_edit_wars on its own
\* revisions alone.
C22_Independent ==
    \A w \in DOMAIN workers.run :
        workers.run[w].pc = "done" => workers.run[w].result = DetectEditWars(workers.run[w].revisions, cfg)

\* Both runs are over, on different pages, each with an episode, and each
\* took a grouping step while the other was grouping.
C22_Witness ==
    /\ \A w \in DOMAIN workers.run :
          /\ workers.run[w].pc = "done"
          /\ workers.run[w].overlapped
          /\ workers.run[w].result.value.edit_wars # <<>>
    /\ workers.run[1].revisions # workers.run[2].revisions
    /\ workers.run[1].result # workers.run[2].result

(***************************************************************************)
(* Reverts out of chronological order.                                     *)
(***************************************************************************)
\* A revert earlier than the one before it joins the open group.
C23_NegativeGapJoins ==
    (pc = "group_loop" /\ i <= Len(reverts) /\ i' = i + 1 /\ GapMinutes(reverts, i - 1) < 0) =>
        current_group' = Append(current_group, reverts[i])

\* The groups are runs of consecutive reverts of the input.
C23_ContiguousRuns ==
    (pc \in {"group_done", "wars_done"}) =>
        /\ result.status = "ok"
        /\ GroupReturned =>
              \A k \in DOMAIN result.value :
                  \E a \in DOMAIN reverts :
                      /\ a + Len(result.value[k]) - 1 <= Len(reverts)
                      /\ \A j \in DOMAIN result.value[k] : result.value[k][j] = reverts[a + j - 1]

\* C23: on a revert list whose timestamps do not ascend the grouper raises
\* nothing and returns runs of consecutive reverts of the input; a revert
\* earlier than the previous one joins the open group.
C23_OutOfOrder == [][C23_NegativeGapJoins]_vars /\ []C23_ContiguousRuns

\* An episode of negative duration with a negative interval.
C23_Witness ==
    /\ WarsReturned
    /\ \E k \in DOMAIN result.value :
          /\ result.value[k].duration_minutes < 0
          /\ result.value[k].min_interval_minutes < 0 - WindowMinutes

(***************************************************************************)
(* The scanner and the comments.                                           *)
(***************************************************************************)
\* The two lists agree on every editor, timestamp and size.
SameButComments ==
    /\ Len(history.other) = Len(revisions)
    /\ \A k \in DOMAIN revisions :
          /\ history.other[k].user = revisions[k].user
          /\ history.other[k].timestamp = revisions[k].timestamp
          /\ history.other[k].size = revisions[k].size
          /\ history.other[k].has = revisions[k].has

\* C24: the scans of two revision lists that differ only in comments
\* return the same violations.
C24_CommentsIgnored == (pc = "both_done" /\ SameButComments) => result = history.result

\* Two lists with a violation each, of which the classifier finds reverts in
\* the one and none in the other.
C24_Witness ==
    /\ pc = "both_done"
    /\ SameButComments
    /\ result.status = "ok" /\ result.value # <<>>
    /\ DetectReverts(revisions).value = <<>>
    /\ Len(DetectReverts(history.other).value) >= 3

(***************************************************************************)
(* The scanner's counter.                                                  *)
(***************************************************************************)
\* The editor whose pairs are being walked.
Walked == ScanOrder[user_index]

\* Both revisions of pair j carry a size and the sizes are less than 100
\* bytes apart.
CountsAsRevert(u, j) ==
    LET rs == RevisionsBy(u)
    IN  /\ rs[j].has.size
        /\ rs[j-1].has.size
        /\ \E d \in 0..99 : rs[j].size - rs[j-1].size = d \/ rs[j-1].size - rs[j].size = d

\* A step over a pair counts it exactly when it counts as a revert, and
\* reports the editor exactly when the gap is at most 24 hours and the
\* counter, after the step, is 3 or more.
C25_StepRule ==
    (pc = "scan_pairs" /\ i <= Len(RevisionsBy(Walked))) =>
        /\ revert_count' = IF CountsAsRevert(Walked, i) THEN revert_count + 1 ELSE revert_count
        /\ (violations' # violations) <=> (PairGap(Walked, i) <= DayMinutes /\ revert_count' >= 3)

\* C25: the counter grows by one for a pair exactly when both revisions
\* carry a size and the sizes differ by less than 100 bytes; any other pair
\* leaves it as it is and is still tested for emission.
C25_CounterRule == [][C25_StepRule]_vars

\* A violation reported at a revision without size, so at a pair that was
\* not counted; and a pair exactly 100 bytes apart that was not counted.
C25_Witness ==
    /\ ScanReturned
    /\ \E k \in DOMAIN result.value :
          LET u == result.value[k].user
              p == PositionOf(result.value[k])
          IN  /\ ~RevisionsBy(u)[p].has.size
              /\ result.value[k].revert_count = 3

\* A scan that walked a pair exactly 100 bytes apart without counting it.
C25_Hundred ==
    /\ pc = "scan_pairs"
    /\ i = 3
    /\ revert_count = 0
    /\ revisions[1].has.size /\ revisions[2].has.size
    /\ revisions[2].size - revisions[1].size = 100

(***************************************************************************)
(* The scripts' three-revert check.                                        *)
(***************************************************************************)
\* The number of reverts of the group made by the editor.
RevertsBy(group, u) == Cardinality({k \in DOMAIN group : group[k].user = u})

\* C26: the quick check and the summary's block report an editor who made 3
\* or more of the reverts of an episode of the article.
C26_ThreeRevertsFlagged ==
    (pc \in {"violations_quick_done", "violations_summary_done"}) =>
        \A g \in DOMAIN groups : \A u \in Users :
            RevertsBy(groups[g], u) >= 3 => \E k \in DOMAIN result.value : result.value[k].editor = u

(***************************************************************************)
(* Episodes as a partition of a subsequence of the reverts.                *)
(***************************************************************************)
\* The input positions of the first and the last member of a group.
FirstPosition(g) == IndexOf(reverts, g[1].revid)

LastPosition(g) == IndexOf(reverts, g[Len(g)].revid)

\* The groups that hold the revert at input position j.
GroupsHolding(j) ==
    {k \in DOMAIN result.value : \E m \in DOMAIN result.value[k] : result.value[k][m] = reverts[j]}

\* The revert at position j is in a run of reverts within the window of
\* each other that has fewer than revert_threshold members.
InSmallRun(j) ==
    \E a \in 1..j : \E b \in j..Len(reverts) :
        /\ \A k \in a..(b - 1) : GapMinutes(reverts, k) <= WindowMinutes
        /\ a = 1 \/ GapMinutes(reverts, a - 1) > WindowMinutes
        /\ b = Len(reverts) \/ GapMinutes(reverts, b) > WindowMinutes
        /\ b - a + 1 < cfg.revert_threshold

\* C27: the returned groups are runs of consecutive reverts of the input,
\* each group after the one before it, so that no revert is in two groups
\* and the groups in a row are a subsequence of the input; a revert of a
\* discarded group is in no group.
C27_Partition ==
    GroupReturned =>
        /\ \A k \in DOMAIN result.value :
              /\ LastPosition(result.value[k]) - FirstPosition(result.value[k]) + 1 = Len(result.value[k])
              /\ \A m \in DOMAIN result.value[k] :
                    result.value[k][m] = reverts[FirstPosition(result.value[k]) + m - 1]
        /\ \A k \in 1..(Len(result.value) - 1) :
              LastPosition(result.value[k]) < FirstPosition(result.value[k + 1])
        /\ \A j \in DOMAIN reverts :
              /\ Cardinality(GroupsHolding(j)) <= 1
              /\ InSmallRun(j) => GroupsHolding(j) = {}

\* Two episodes with a discarded revert between them.
C27_Witness ==
    /\ GroupReturned
    /\ Len(result.value) = 2
    /\ \E j \in DOMAIN reverts :
          /\ InSmallRun(j)
          /\ LastPosition(result.value[1]) < j
          /\ j < FirstPosition(result.value[2])

(***************************************************************************)
(* The scripts' grouping loops and the analyzer's.                         *)
(***************************************************************************)
PatternsReturned == pc \in {"patterns_quick_done", "patterns_summary_done", "timeline_done"}

\* C28: the groups of the loops written into analyze_edit_war_patterns,
\* analyze_edit_war_patterns_quick and create_edit_war_timeline are those of
\* _group_reverts_by_time under a window of 24 hours and a threshold of 3;
\* below 3 reverts, where the scripts return early, the analyzer's grouping
\* has no group either.
C28_SameGroups ==
    PatternsReturned =>
        /\ cfg.time_window_hours = 24 /\ cfg.revert_threshold = 3
        /\ groups = GroupRevertsByTime(reverts, cfg)
        /\ Len(reverts) < 3 => GroupRevertsByTime(reverts, cfg) = <<>>
        /\ pc = "timeline_done" /\ groups # <<>> =>
               [k \in DOMAIN result.value |-> result.value[k].revert_count]
                   = [k \in DOMAIN groups |-> Len(GroupRevertsByTime(reverts, cfg)[k])]
        /\ pc # "timeline_done" /\ groups # <<>> =>
               [k \in DOMAIN result.value.edit_wars |-> result.value.edit_wars[k].revert_count]
                   = [k \in DOMAIN groups |-> Len(GroupRevertsByTime(reverts, cfg)[k])]

\* The timeline's loop has grouped reverts exactly 24 hours apart and left
\* others out.
C28_Witness ==
    /\ pc = "timeline_done"
    /\ groups # <<>>
    /\ \E k \in 1..(Len(groups[1]) - 1) : GapMinutes(groups[1], k) = 60 * 24
    /\ Len(groups[1]) < Len(reverts)

(***************************************************************************)
(* The analyzer's classifier against the comment-only ones.                *)
(***************************************************************************)
\* The indexes of the revisions in a classifier's returned list.
SelectedBy(res) == {ParseTimestamp(res.value[k].timestamp) : k \in DOMAIN res.value}

\* The returned list follows the order of the input.
InInputOrder(res) ==
    \A j \in 1..(Len(res.value) - 1) :
        ParseTimestamp(res.value[j].timestamp) < ParseTimestamp(res.value[j + 1].timestamp)

\* The lower-cased comment contains an indicator other than 'reverted'.
HasShortIndicator(rev) ==
    /\ rev.has.comment
    /\ \E ind \in ClaimIndicators \ {<<"r", "e", "v", "e", "r", "t", "e", "d">>} :
          \E off \in 0..Len(rev.comment) :
              /\ off + Len(ind) <= Len(rev.comment)
              /\ \A j \in 1..Len(ind) : ClaimLower(rev.comment[off + j]) = ind[j]

\* C29: every revision EditWarAnalyzer.detect_reverts selects is selected by
\* the comment-only classifiers; both lists follow the input order; the
\* selections are equal when every adjacent pair has both sizes with a ratio
\* below 0.10; and the comment-only selection is that of the indicators
\* without 'reverted'.
C29_StrictRefines ==
    /\ pc = "detect_done" =>
          /\ result.status = "ok" /\ DetectRevertsQuick(revisions).status = "ok"
          /\ Selected \subseteq SelectedBy(DetectRevertsQuick(revisions))
          /\ InInputOrder(result)
          /\ (\A k \in Later : SizeRatioBelowTenth(k)) =>
                 Selected = SelectedBy(DetectRevertsQuick(revisions))
    /\ pc = "quick_done" =>
          /\ result.status = "ok" /\ DetectReverts(revisions).status = "ok"
          /\ SelectedBy(DetectReverts(revisions)) \subseteq Selected
          /\ InInputOrder(result)
          /\ Selected = {k \in Later : HasShortIndicator(revisions[k])}

\* The analyzer selected one revision and left out a later one, marked
\* 'reverted', that the comment-only classifiers select.
C29_Witness ==
    /\ pc = "detect_done"
    /\ Selected # {}
    /\ \E k \in SelectedBy(DetectRevertsQuick(revisions)) \ Selected :
          /\ revisions[k].comment = <<"r", "e", "v", "e", "r", "t", "e", "d">>
          /\ \E j \in Selected : j < k

(***************************************************************************)
(* The arithmetic of an episode's intervals.  The duration is kept in      *)
(* minutes, duration_hours being that count over 60.                       *)
(***************************************************************************)
\* C30: in every episode of chronologically ordered reverts the n-1 intervals
\* add up to the duration, each lies between 0 and the window in minutes, so
\* the duration is at most (n-1) windows and the mean interval, the sum over
\* n-1, lies between the smallest and the largest interval.
C30_IntervalArithmetic ==
    WarsReturned =>
        /\ \A e \in Episodes : \A j \in DOMAIN EpisodeGaps(e) :
              EpisodeGaps(e)[j] >= 0 /\ EpisodeGaps(e)[j] <= WindowMinutes
        /\ \A k \in DOMAIN result.value :
              LET war == result.value[k]
                  n == war.revert_count
              IN  /\ war.avg_interval_minutes[2] = n - 1
                  /\ war.avg_interval_minutes[1] = war.duration_minutes
                  /\ war.min_interval_minutes >= 0
                  /\ war.max_interval_minutes <= WindowMinutes
                  /\ war.duration_minutes <= (n - 1) * WindowMinutes
                  /\ war.min_interval_minutes * (n - 1) <= war.avg_interval_minutes[1]
                  /\ war.avg_interval_minutes[1] <= war.max_interval_minutes * (n - 1)

\* An episode with an interval of 0, an interval of the whole window and a
\* mean strictly between them.
C30_Witness ==
    /\ WarsReturned
    /\ \E k \in DOMAIN result.value :
          LET war == result.value[k]
          IN  /\ war.min_interval_minutes = 0
              /\ war.max_interval_minutes = WindowMinutes
              /\ war.revert_count >= 4
              /\ 0 < war.avg_interval_minutes[1]
              /\ war.avg_interval_minutes[1] < war.max_interval_minutes * (war.revert_count - 1)
              /\ war.duration_minutes > WindowMinutes

====
